---- MODULE Spec2Model ----
(***************************************************************************)
(* lazynmap: the Model <-> command-line mapping.                           *)
(*   src/src/scan/model.rs    NmapScan, the configuration Model            *)
(*   src/src/scan/builder.rs  NmapCommandBuilder::build, Model -> String   *)
(*   src/src/scan/parser.rs   NmapParser::parse, String -> Result          *)
(* Strings are TLA+ strings; a character is a string of length 1.          *)
(***************************************************************************)
EXTENDS Integers, Sequences, FiniteSets, TLC

(***************************************************************************)
(* Option<T>: None is the empty tuple, Some(v) the 1-tuple <<v>>.           *)
(***************************************************************************)
None == <<>>
Some(v) == <<v>>

(***************************************************************************)
(* str helpers (Rust std): chars, starts_with, contains, split, join,      *)
(* replace.                                                                *)
(***************************************************************************)
Ch(s, i) == IF 1 <= i /\ i <= Len(s) THEN SubSeq(s, i, i) ELSE ""

starts_with(s, p) == Len(s) >= Len(p) /\ SubSeq(s, 1, Len(p)) = p

contains(s, c) == \E i \in 1..Len(s) : Ch(s, i) = c

RECURSIVE SplitFrom(_, _, _, _)
SplitFrom(s, sep, i, cur) ==
    IF i > Len(s) THEN <<cur>>
    ELSE IF Ch(s, i) = sep THEN <<cur>> \o SplitFrom(s, sep, i + 1, "")
    ELSE SplitFrom(s, sep, i + 1, cur \o Ch(s, i))

split(s, sep) == SplitFrom(s, sep, 1, "")

RECURSIVE join(_, _)
join(list, sep) ==
    IF Len(list) = 0 THEN ""
    ELSE IF Len(list) = 1 THEN list[1]
    ELSE list[1] \o sep \o join(Tail(list), sep)

RECURSIVE replace(_, _, _)
replace(s, from, to) ==
    IF s = "" THEN ""
    ELSE (IF Ch(s, 1) = from THEN to ELSE Ch(s, 1))
            \o replace(SubSeq(s, 2, Len(s)), from, to)

(***************************************************************************)
(* Decimal numerals.  u8/u16/u32 FromStr accepts an optional '+', then one *)
(* or more ASCII digits, and fails on overflow of the type; Display prints *)
(* the shortest decimal numeral.  The range test is done on the numeral so *)
(* that it is exact for u32.                                               *)
(***************************************************************************)
Digits == <<"0", "1", "2", "3", "4", "5", "6", "7", "8", "9">>

IsDigit(c) == \E d \in 1..10 : Digits[d] = c

DigitVal(c) == (CHOOSE d \in 1..10 : Digits[d] = c) - 1

U8_MAX == "255"
U16_MAX == "65535"
U32_MAX == "4294967295"

RECURSIVE StripZeros(_)
StripZeros(s) ==
    IF Len(s) > 1 /\ Ch(s, 1) = "0" THEN StripZeros(SubSeq(s, 2, Len(s))) ELSE s

RECURSIVE NumeralLE(_, _)
NumeralLE(a, b) ==
    IF Len(a) # Len(b) THEN Len(a) < Len(b)
    ELSE IF a = "" THEN TRUE
    ELSE IF Ch(a, 1) # Ch(b, 1) THEN DigitVal(Ch(a, 1)) < DigitVal(Ch(b, 1))
    ELSE NumeralLE(SubSeq(a, 2, Len(a)), SubSeq(b, 2, Len(b)))

RECURSIVE NumeralValue(_)
NumeralValue(s) ==
    IF s = "" THEN 0
    ELSE 10 * NumeralValue(SubSeq(s, 1, Len(s) - 1)) + DigitVal(Ch(s, Len(s)))

from_str_unsigned(s, max) ==
    LET body == IF starts_with(s, "+") THEN SubSeq(s, 2, Len(s)) ELSE s
    IN  IF body = "" \/ \E i \in 1..Len(body) : ~IsDigit(Ch(body, i)) THEN None
        ELSE IF ~NumeralLE(StripZeros(body), max) THEN None
        ELSE Some(NumeralValue(StripZeros(body)))

RECURSIVE to_string(_)
to_string(n) ==
    IF n < 10 THEN Digits[n + 1]
    ELSE to_string(n \div 10) \o Digits[(n % 10) + 1]

(***************************************************************************)
(* NmapParser::tokenize.  TokenizeChar is the body of the `while let` loop *)
(* for one character c; t holds the locals tokens, current, in_quotes, and *)
(* t.escaped says that c is the character which the '\\' arm peeked and    *)
(* took with chars.next(), to be pushed as it is.  TokenizeRange runs the  *)
(* loop over command[lo..hi] in order (split in halves to keep the         *)
(* evaluation shallow).                                                    *)
(***************************************************************************)
\* variant: a backslash escapes the next character outside quotes as well
TokenizeChar_escape_anywhere(t, c) ==
    IF t.escaped THEN [t EXCEPT !.current = @ \o c, !.escaped = FALSE]
    ELSE IF c = "\"" THEN [t EXCEPT !.in_quotes = ~@]
    ELSE IF c \in {" ", "\t", "\n"} /\ ~t.in_quotes
    THEN IF t.current # ""
         THEN [t EXCEPT !.tokens = Append(@, t.current), !.current = ""]
         ELSE t
    ELSE IF c = "\\" THEN [t EXCEPT !.escaped = TRUE]
    ELSE [t EXCEPT !.current = @ \o c]

TokenizeChar(t, c) ==
    IF t.escaped
    THEN [t EXCEPT !.current = @ \o c, !.escaped = FALSE]
    ELSE IF c = "\""
    THEN [t EXCEPT !.in_quotes = ~@]
    ELSE IF c \in {" ", "\t", "\n"} /\ ~t.in_quotes
    THEN IF t.current # ""
         THEN [t EXCEPT !.tokens = Append(@, t.current), !.current = ""]
         ELSE t
    ELSE IF c = "\\" /\ t.in_quotes
    THEN [t EXCEPT !.escaped = TRUE]
    ELSE [t EXCEPT !.current = @ \o c]

RECURSIVE TokenizeRange(_, _, _, _)
TokenizeRange(command, lo, hi, t) ==
    IF lo > hi THEN t
    ELSE IF lo = hi THEN TokenizeChar(t, Ch(command, lo))
    ELSE LET mid == (lo + hi) \div 2
             left == TokenizeRange(command, lo, mid, t)
         IN  \* the test makes TLC evaluate the left half before the right
             IF left.escaped \in BOOLEAN
             THEN TokenizeRange(command, mid + 1, hi, left)
             ELSE left

tokenize(command) ==
    LET t == TokenizeRange(command, 1, Len(command),
                 [tokens |-> <<>>, current |-> "", in_quotes |-> FALSE,
                  escaped |-> FALSE])
    IN  IF t.current # "" THEN Append(t.tokens, t.current) ELSE t.tokens

(***************************************************************************)
(* f32 FromStr (core::num::dec2flt): optional sign, then either decimal    *)
(* digits with an optional '.' and optional exponent (at least one digit), *)
(* or, case-insensitively, "nan", "inf", "infinity".  The value kept is    *)
(* the exact decimal [neg, mant, exp] = (-1)^neg * mant * 10^exp with mant *)
(* free of leading and trailing zeros; binary rounding of f32 is not       *)
(* modelled, so the value is exact for short decimals only.                *)
(***************************************************************************)
Lower == [c \in {"N", "A", "I", "F", "T", "Y"} |->
             CASE c = "N" -> "n" [] c = "A" -> "a" [] c = "I" -> "i"
               [] c = "F" -> "f" [] c = "T" -> "t" [] c = "Y" -> "y"]

RECURSIVE to_ascii_lowercase(_)
to_ascii_lowercase(s) ==
    IF s = "" THEN ""
    ELSE (IF Ch(s, 1) \in DOMAIN Lower THEN Lower[Ch(s, 1)] ELSE Ch(s, 1))
            \o to_ascii_lowercase(SubSeq(s, 2, Len(s)))

RECURSIVE StripTrailingZeros(_)
StripTrailingZeros(s) ==
    IF Len(s) > 1 /\ Ch(s, Len(s)) = "0"
    THEN StripTrailingZeros(SubSeq(s, 1, Len(s) - 1)) ELSE s

\* the decimal grammar, one character at a time: digits, an optional '.'
\* and more digits, an optional exponent e|E [sign] digits
FloatChar(st, c) ==
    IF ~st.ok THEN st
    ELSE IF IsDigit(c)
    THEN IF st.phase = "int"
         THEN [st EXCEPT !.digits = @ \o c, !.nInt = @ + 1]
         ELSE IF st.phase = "frac"
         THEN [st EXCEPT !.digits = @ \o c, !.nFrac = @ + 1]
         ELSE [st EXCEPT !.expDigits = @ \o c, !.phase = "exp"]
    ELSE IF c = "." /\ st.phase = "int" THEN [st EXCEPT !.phase = "frac"]
    ELSE IF c \in {"e", "E"} /\ st.phase \in {"int", "frac"}
            /\ st.nInt + st.nFrac > 0
    THEN [st EXCEPT !.phase = "expsign"]
    ELSE IF c \in {"+", "-"} /\ st.phase = "expsign"
    THEN [st EXCEPT !.phase = "exp", !.expNeg = (c = "-")]
    ELSE [st EXCEPT !.ok = FALSE]

RECURSIVE FloatScan(_, _, _)
FloatScan(body, i, st) ==
    IF i > Len(body) THEN st
    ELSE FloatScan(body, i + 1, FloatChar(st, Ch(body, i)))

\* the value of scanned digits: mantissa without leading and trailing
\* zeros, decimal exponent adjusted for the fraction and the zeros dropped
FloatValue(neg, st, digits, mant) ==
    LET expVal == NumeralValue(st.expDigits)
    IN  [neg |-> neg, mant |-> mant,
         exp |-> IF mant = "0" THEN 0
                 ELSE (IF st.expNeg THEN 0 - expVal ELSE expVal)
                        - st.nFrac + (Len(digits) - Len(mant))]

FloatOf(neg, st, special) ==
    IF /\ st.ok
       /\ st.nInt + st.nFrac > 0
       /\ \/ st.phase \in {"int", "frac"}
          \/ st.phase = "exp" /\ st.expDigits # ""
    THEN Some(FloatValue(neg, st, StripZeros(st.digits),
                         StripTrailingZeros(StripZeros(st.digits))))
    ELSE IF special = "nan"
    THEN Some([neg |-> neg, mant |-> "nan", exp |-> 0])
    ELSE IF special \in {"inf", "infinity"}
    THEN Some([neg |-> neg, mant |-> "inf", exp |-> 0])
    ELSE None

FloatBody(neg, body) ==
    IF body = "" THEN None
    ELSE FloatOf(neg,
                 FloatScan(body, 1,
                           [ok |-> TRUE, phase |-> "int", digits |-> "",
                            nInt |-> 0, nFrac |-> 0, expDigits |-> "",
                            expNeg |-> FALSE]),
                 to_ascii_lowercase(body))

from_str_f32(s) ==
    FloatBody(Ch(s, 1) = "-",
              IF Ch(s, 1) \in {"-", "+"} THEN SubSeq(s, 2, Len(s)) ELSE s)


(***************************************************************************)
(* IpAddr FromStr (core::net::parser): an IPv4 dotted quad (four decimal   *)
(* octets of 1..3 digits, no leading zero, <= 255) or an IPv6 address      *)
(* (hex groups of 1..4 digits, at most one "::", an IPv4 tail allowed in   *)
(* the last two groups).  The value is [v |-> 4, o |-> 4 octets] or        *)
(* [v |-> 6, g |-> 8 groups].                                              *)
(***************************************************************************)
HexDigits == <<"0", "1", "2", "3", "4", "5", "6", "7", "8", "9",
               "a", "b", "c", "d", "e", "f">>

HexUpper == <<"0", "1", "2", "3", "4", "5", "6", "7", "8", "9",
              "A", "B", "C", "D", "E", "F">>

IsHexDigit(c) == \E d \in 1..16 : HexDigits[d] = c \/ HexUpper[d] = c

HexDigitVal(c) == (CHOOSE d \in 1..16 : HexDigits[d] = c \/ HexUpper[d] = c) - 1

RECURSIVE HexValue(_)
HexValue(s) ==
    IF s = "" THEN 0
    ELSE 16 * HexValue(SubSeq(s, 1, Len(s) - 1)) + HexDigitVal(Ch(s, Len(s)))

IsOctet(p) ==
    /\ Len(p) \in 1..3
    /\ \A i \in 1..Len(p) : IsDigit(Ch(p, i))
    /\ Len(p) > 1 => Ch(p, 1) # "0"
    /\ NumeralLE(p, U8_MAX)

IsIpv4(s) ==
    LET parts == split(s, ".")
    IN  Len(parts) = 4 /\ \A i \in 1..4 : IsOctet(parts[i])

Ipv4Octets(s) == [i \in 1..4 |-> NumeralValue(split(s, ".")[i])]

IsHexGroup(p) == Len(p) \in 1..4 /\ \A i \in 1..Len(p) : IsHexDigit(Ch(p, i))

\* read_groups over the ':'-separated parts with `limit` slots left: hex
\* groups, the last part possibly an IPv4 address filling two slots.
GroupsOk(parts, limit) ==
    LET n == Len(parts)
        v4 == n > 0 /\ IsIpv4(parts[n])
    IN  /\ \A i \in 1..(n - 1) : IsHexGroup(parts[i])
        /\ n > 0 => (IsHexGroup(parts[n]) \/ v4)
        /\ (IF v4 /\ ~IsHexGroup(parts[n]) THEN n + 1 ELSE n) <= limit

GroupValues(parts) ==
    LET n == Len(parts)
    IN  IF n > 0 /\ ~IsHexGroup(parts[n])
        THEN [i \in 1..(n - 1) |-> HexValue(parts[i])]
               \o << 256 * Ipv4Octets(parts[n])[1] + Ipv4Octets(parts[n])[2],
                     256 * Ipv4Octets(parts[n])[3] + Ipv4Octets(parts[n])[4] >>
        ELSE [i \in 1..n |-> HexValue(parts[i])]

DoubleColonAt(s) ==
    IF \E k \in 1..(Len(s) - 1) : SubSeq(s, k, k + 1) = "::"
    THEN CHOOSE k \in 1..(Len(s) - 1) :
            /\ SubSeq(s, k, k + 1) = "::"
            /\ \A j \in 1..(k - 1) : SubSeq(s, j, j + 1) # "::"
    ELSE 0

from_str_ipv6(s) ==
    LET k == DoubleColonAt(s)
        whole == split(s, ":")
        head == IF k > 1 THEN split(SubSeq(s, 1, k - 1), ":") ELSE <<>>
        tail == IF k > 0 /\ k + 2 <= Len(s)
                THEN split(SubSeq(s, k + 2, Len(s)), ":") ELSE <<>>
        hv == GroupValues(head)
        tv == GroupValues(tail)
    IN  IF k = 0
        THEN IF GroupsOk(whole, 8) /\ Len(GroupValues(whole)) = 8
             THEN Some(GroupValues(whole)) ELSE None
        ELSE IF /\ \A i \in 1..Len(head) : IsHexGroup(head[i])
                /\ Len(head) <= 7
                /\ GroupsOk(tail, 7 - Len(head))
             THEN Some(hv \o [i \in 1..(8 - Len(hv) - Len(tv)) |-> 0] \o tv)
             ELSE None

from_str_ip(s) ==
    IF IsIpv4(s) THEN Some([v |-> 4, o |-> Ipv4Octets(s)])
    ELSE IF from_str_ipv6(s) # None THEN Some([v |-> 6, g |-> from_str_ipv6(s)[1]])
    ELSE None


(***************************************************************************)
(* The Model: NmapScan and its sub-structs, all-default (model.rs).         *)
(* ScanTechnique is [tag] with an `arg` payload for Scanflags, Idle, Ftp   *)
(* and Sctp and a `list` payload for Multiple.                             *)
(***************************************************************************)
TimingTemplate == <<"Paranoid", "Sneaky", "Polite", "Normal", "Aggressive", "Insane">>

\* variant: the templates are numbered from one
TimingTemplate_as_u8_from_one(t) ==
    CHOOSE i \in 1..Len(TimingTemplate) : TimingTemplate[i] = t

TimingTemplate_as_u8(t) == (CHOOSE i \in 1..Len(TimingTemplate) : TimingTemplate[i] = t) - 1

Technique(tag) == [tag |-> tag]
TechniqueArg(tag, arg) == [tag |-> tag, arg |-> arg]
Multiple(list) == [tag |-> "Multiple", list |-> list]

TargetSpecification_default ==
    [targets |-> <<>>, input_file |-> None, random_targets |-> None,
     exclude |-> <<>>, exclude_file |-> None]

HostDiscovery_default ==
    [list_scan |-> FALSE, ping_scan |-> FALSE, skip_port_scan |-> FALSE,
     syn_discovery |-> <<>>, ack_discovery |-> <<>>, udp_discovery |-> <<>>,
     sctp_discovery |-> <<>>, icmp_echo |-> FALSE, icmp_timestamp |-> FALSE,
     icmp_netmask |-> FALSE, ip_protocol_ping |-> <<>>, dns_servers |-> <<>>,
     system_dns |-> FALSE, traceroute |-> FALSE]

PortSpecification_default ==
    [ports |-> None, exclude_ports |-> None, fast_mode |-> FALSE,
     consecutive_ports |-> FALSE, top_ports |-> None, port_ratio |-> None]

ServiceDetection_default ==
    [enabled |-> FALSE, intensity |-> None, light |-> FALSE, all |-> FALSE,
     trace |-> FALSE]

ScriptScan_default ==
    [default |-> FALSE, scripts |-> <<>>, script_args |-> None,
     script_args_file |-> None, script_trace |-> FALSE,
     script_updatedb |-> FALSE, script_help |-> None]

OsDetection_default ==
    [enabled |-> FALSE, limit |-> FALSE, guess |-> FALSE, max_retries |-> None]

TimingPerformance_default ==
    [template |-> None, min_hostgroup |-> None, max_hostgroup |-> None,
     min_parallelism |-> None, max_parallelism |-> None,
     min_rtt_timeout |-> None, max_rtt_timeout |-> None,
     initial_rtt_timeout |-> None, max_retries |-> None, host_timeout |-> None,
     script_timeout |-> None, scan_delay |-> None, max_scan_delay |-> None,
     min_rate |-> None, max_rate |-> None, defeat_rst_ratelimit |-> FALSE,
     defeat_icmp_ratelimit |-> FALSE, nsock_engine |-> None]

EvasionSpoofing_default ==
    [fragment_packets |-> FALSE, mtu |-> None, decoys |-> <<>>,
     spoof_ip |-> None, interface |-> None, source_port |-> None,
     data |-> None, data_string |-> None, data_length |-> None,
     ip_options |-> None, ttl |-> None, randomize_hosts |-> FALSE,
     spoof_mac |-> None, badsum |-> FALSE, adler32 |-> FALSE]

OutputOptions_default ==
    [normal |-> None, xml |-> None, script_kiddie |-> None, grepable |-> None,
     all_formats |-> None, verbose |-> 0, debug |-> 0, reason |-> FALSE,
     stats_every |-> None, packet_trace |-> FALSE, open_only |-> FALSE,
     iflist |-> FALSE, append_output |-> FALSE, resume |-> None,
     stylesheet |-> None, webxml |-> FALSE, no_stylesheet |-> FALSE]

MiscOptions_default ==
    [ipv6 |-> FALSE, aggressive |-> FALSE, datadir |-> None,
     send_eth |-> FALSE, send_ip |-> FALSE, privileged |-> FALSE,
     unprivileged |-> FALSE, release_memory |-> FALSE, version |-> FALSE,
     help |-> FALSE, resolve_all |-> FALSE, no_resolve |-> FALSE,
     unique |-> FALSE, log_errors |-> FALSE]

NmapScan_new ==
    [target_specification |-> TargetSpecification_default,
     host_discovery |-> HostDiscovery_default,
     scan_technique |-> Technique("Syn"),
     ports |-> PortSpecification_default,
     service_detection |-> ServiceDetection_default,
     script_scan |-> ScriptScan_default,
     os_detection |-> OsDetection_default,
     timing |-> TimingPerformance_default,
     evasion |-> EvasionSpoofing_default,
     output |-> OutputOptions_default,
     misc |-> MiscOptions_default]


(***************************************************************************)
(* Result<T, ParseError> and ParseError (parser.rs)                        *)
(***************************************************************************)
Ok(v) == [ok |-> TRUE, val |-> v]
Err(e) == [ok |-> FALSE, err |-> e]

InvalidFlag(flag) == [kind |-> "InvalidFlag", flag |-> flag]
InvalidValue(flag, val) == [kind |-> "InvalidValue", flag |-> flag, val |-> val]
MissingValue(flag) == [kind |-> "MissingValue", flag |-> flag]

(***************************************************************************)
(* The match of NmapParser::parse_flag as a table in source order: one row *)
(* per pattern, with the rule it applies, the field it assigns, the rule's *)
(* parameter (integer width, technique, template, increment) and the       *)
(* source line of the arm.  The row "ports_glued" is the guarded arm       *)
(* `f if f.starts_with("-p") && f.len() > 2`.                              *)
(***************************************************************************)
Arm(flag, kind, sec, field, arg, line) ==
    [flag |-> flag, kind |-> kind, sec |-> sec, field |-> field, arg |-> arg,
     line |-> line]

DispatchTable == <<
    Arm("-iL", "path", "target_specification", "input_file", "", 98),
    Arm("-iR", "number", "target_specification", "random_targets", U32_MAX, 102),
    Arm("--exclude", "strlist", "target_specification", "exclude", ",", 106),
    Arm("--exclude-file", "path", "target_specification", "exclude_file", "", 112),
    Arm("-sL", "bool", "host_discovery", "list_scan", TRUE, 118),
    Arm("-sn", "bool", "host_discovery", "ping_scan", TRUE, 119),
    Arm("-Pn", "bool", "host_discovery", "skip_port_scan", TRUE, 120),
    Arm("-PS", "portlist", "host_discovery", "syn_discovery", U16_MAX, 121),
    Arm("-PA", "portlist", "host_discovery", "ack_discovery", U16_MAX, 126),
    Arm("-PU", "portlist", "host_discovery", "udp_discovery", U16_MAX, 131),
    Arm("-PY", "portlist", "host_discovery", "sctp_discovery", U16_MAX, 136),
    Arm("-PE", "bool", "host_discovery", "icmp_echo", TRUE, 141),
    Arm("-PP", "bool", "host_discovery", "icmp_timestamp", TRUE, 142),
    Arm("-PM", "bool", "host_discovery", "icmp_netmask", TRUE, 143),
    Arm("-PO", "portlist", "host_discovery", "ip_protocol_ping", U8_MAX, 144),
    Arm("--traceroute", "bool", "host_discovery", "traceroute", TRUE, 149),
    Arm("--dns-servers", "strlist", "host_discovery", "dns_servers", ",", 150),
    Arm("--system-dns", "bool", "host_discovery", "system_dns", TRUE, 156),
    Arm("-sS", "technique", "scan_technique", "", Technique("Syn"), 159),
    Arm("-sT", "technique", "scan_technique", "", Technique("Connect"), 160),
    Arm("-sA", "technique", "scan_technique", "", Technique("Ack"), 161),
    Arm("-sW", "technique", "scan_technique", "", Technique("Window"), 162),
    Arm("-sM", "technique", "scan_technique", "", Technique("Maimon"), 163),
    Arm("-sU", "technique", "scan_technique", "", Technique("Udp"), 164),
    Arm("-sN", "technique", "scan_technique", "", Technique("TcpNull"), 165),
    Arm("-sF", "technique", "scan_technique", "", Technique("Fin"), 166),
    Arm("-sX", "technique", "scan_technique", "", Technique("Xmas"), 167),
    Arm("-sY", "technique", "scan_technique", "", TechniqueArg("Sctp", "Init"), 168),
    Arm("-sZ", "technique", "scan_technique", "", TechniqueArg("Sctp", "Cookie"), 169),
    Arm("-sO", "technique", "scan_technique", "", Technique("IpProtocol"), 170),
    Arm("--scanflags", "technique_arg", "scan_technique", "", "Scanflags", 171),
    Arm("-sI", "technique_arg", "scan_technique", "", "Idle", 175),
    Arm("-b", "technique_arg", "scan_technique", "", "Ftp", 178),
    Arm("-p", "ports_glued", "ports", "ports", 2, 183),
    Arm("-p", "string", "ports", "ports", "", 187),
    Arm("--exclude-ports", "string", "ports", "exclude_ports", "", 188),
    Arm("-F", "bool", "ports", "fast_mode", TRUE, 191),
    Arm("-r", "bool", "ports", "consecutive_ports", TRUE, 192),
    Arm("--top-ports", "number", "ports", "top_ports", U32_MAX, 193),
    Arm("--port-ratio", "float", "ports", "port_ratio", "", 197),
    Arm("-sV", "bool", "service_detection", "enabled", TRUE, 203),
    Arm("--version-intensity", "number", "service_detection", "intensity", U8_MAX, 204),
    Arm("--version-light", "bool", "service_detection", "light", TRUE, 208),
    Arm("--version-all", "bool", "service_detection", "all", TRUE, 209),
    Arm("--version-trace", "bool", "service_detection", "trace", TRUE, 210),
    Arm("-sC", "bool", "script_scan", "default", TRUE, 213),
    Arm("--script", "strlist", "script_scan", "scripts", ",", 214),
    Arm("--script-args", "string", "script_scan", "script_args", "", 220),
    Arm("--script-args-file", "path", "script_scan", "script_args_file", "", 223),
    Arm("--script-trace", "bool", "script_scan", "script_trace", TRUE, 227),
    Arm("--script-updatedb", "bool", "script_scan", "script_updatedb", TRUE, 228),
    Arm("--script-help", "string", "script_scan", "script_help", "", 229),
    Arm("-O", "bool", "os_detection", "enabled", TRUE, 234),
    Arm("--osscan-limit", "bool", "os_detection", "limit", TRUE, 235),
    Arm("--osscan-guess", "bool", "os_detection", "guess", TRUE, 236),
    Arm("--max-os-tries", "number", "os_detection", "max_retries", U32_MAX, 237),
    Arm("-T0", "template", "timing", "template", "Paranoid", 243),
    Arm("-T1", "template", "timing", "template", "Sneaky", 244),
    Arm("-T2", "template", "timing", "template", "Polite", 245),
    Arm("-T3", "template", "timing", "template", "Normal", 246),
    Arm("-T4", "template", "timing", "template", "Aggressive", 247),
    Arm("-T5", "template", "timing", "template", "Insane", 248),
    Arm("--min-hostgroup", "number", "timing", "min_hostgroup", U32_MAX, 249),
    Arm("--max-hostgroup", "number", "timing", "max_hostgroup", U32_MAX, 253),
    Arm("--min-parallelism", "number", "timing", "min_parallelism", U32_MAX, 257),
    Arm("--max-parallelism", "number", "timing", "max_parallelism", U32_MAX, 261),
    Arm("--min-rtt-timeout", "string", "timing", "min_rtt_timeout", "", 265),
    Arm("--max-rtt-timeout", "string", "timing", "max_rtt_timeout", "", 268),
    Arm("--initial-rtt-timeout", "string", "timing", "initial_rtt_timeout", "", 271),
    Arm("--max-retries", "number", "timing", "max_retries", U32_MAX, 274),
    Arm("--host-timeout", "string", "timing", "host_timeout", "", 278),
    Arm("--script-timeout", "string", "timing", "script_timeout", "", 281),
    Arm("--scan-delay", "string", "timing", "scan_delay", "", 284),
    Arm("--max-scan-delay", "string", "timing", "max_scan_delay", "", 287),
    Arm("--min-rate", "number", "timing", "min_rate", U32_MAX, 290),
    Arm("--max-rate", "number", "timing", "max_rate", U32_MAX, 294),
    Arm("--defeat-rst-ratelimit", "bool", "timing", "defeat_rst_ratelimit", TRUE, 298),
    Arm("--defeat-icmp-ratelimit", "bool", "timing", "defeat_icmp_ratelimit", TRUE, 299),
    Arm("--nsock-engine", "string", "timing", "nsock_engine", "", 300),
    Arm("-f", "bool", "evasion", "fragment_packets", TRUE, 305),
    Arm("--mtu", "number", "evasion", "mtu", U32_MAX, 306),
    Arm("-D", "strlist", "evasion", "decoys", ",", 310),
    Arm("-S", "ip", "evasion", "spoof_ip", "", 316),
    Arm("-e", "string", "evasion", "interface", "", 323),
    Arm("-g", "number", "evasion", "source_port", U16_MAX, 324),
    Arm("--source-port", "number", "evasion", "source_port", U16_MAX, 324),
    Arm("--data", "string", "evasion", "data", "", 328),
    Arm("--data-string", "string", "evasion", "data_string", "", 329),
    Arm("--data-length", "number", "evasion", "data_length", U32_MAX, 332),
    Arm("--ip-options", "string", "evasion", "ip_options", "", 336),
    Arm("--ttl", "number", "evasion", "ttl", U8_MAX, 339),
    Arm("--randomize-hosts", "bool", "evasion", "randomize_hosts", TRUE, 343),
    Arm("--spoof-mac", "string", "evasion", "spoof_mac", "", 344),
    Arm("--badsum", "bool", "evasion", "badsum", TRUE, 347),
    Arm("--adler32", "bool", "evasion", "adler32", TRUE, 348),
    Arm("-oN", "path", "output", "normal", "", 351),
    Arm("-oX", "path", "output", "xml", "", 352),
    Arm("-oS", "path", "output", "script_kiddie", "", 353),
    Arm("-oG", "path", "output", "grepable", "", 356),
    Arm("-oA", "string", "output", "all_formats", "", 357),
    Arm("-v", "count", "output", "verbose", 1, 358),
    Arm("-vv", "count", "output", "verbose", 2, 359),
    Arm("-d", "count", "output", "debug", 1, 360),
    Arm("-dd", "count", "output", "debug", 2, 361),
    Arm("--reason", "bool", "output", "reason", TRUE, 362),
    Arm("--stats-every", "string", "output", "stats_every", "", 363),
    Arm("--packet-trace", "bool", "output", "packet_trace", TRUE, 366),
    Arm("--open", "bool", "output", "open_only", TRUE, 367),
    Arm("--iflist", "bool", "output", "iflist", TRUE, 368),
    Arm("--append-output", "bool", "output", "append_output", TRUE, 369),
    Arm("--resume", "path", "output", "resume", "", 370),
    Arm("--stylesheet", "path", "output", "stylesheet", "", 373),
    Arm("--webxml", "bool", "output", "webxml", TRUE, 376),
    Arm("--no-stylesheet", "bool", "output", "no_stylesheet", TRUE, 377),
    Arm("-6", "bool", "misc", "ipv6", TRUE, 380),
    Arm("-A", "bool", "misc", "aggressive", TRUE, 381),
    Arm("--datadir", "path", "misc", "datadir", "", 382),
    Arm("--send-eth", "bool", "misc", "send_eth", TRUE, 385),
    Arm("--send-ip", "bool", "misc", "send_ip", TRUE, 386),
    Arm("--privileged", "bool", "misc", "privileged", TRUE, 387),
    Arm("--unprivileged", "bool", "misc", "unprivileged", TRUE, 388),
    Arm("--release-memory", "bool", "misc", "release_memory", TRUE, 389),
    Arm("-V", "bool", "misc", "version", TRUE, 390),
    Arm("--version", "bool", "misc", "version", TRUE, 390),
    Arm("-h", "bool", "misc", "help", TRUE, 391),
    Arm("--help", "bool", "misc", "help", TRUE, 391),
    Arm("-R", "bool", "misc", "resolve_all", TRUE, 392),
    Arm("-n", "bool", "misc", "no_resolve", TRUE, 393),
    Arm("--unique", "bool", "misc", "unique", TRUE, 394),
    Arm("--log-errors", "bool", "misc", "log_errors", TRUE, 395) >>

\* variant: every arm matches any token that begins with its spelling
ArmMatches_prefix(a, flag) ==
    IF a.kind = "ports_glued"
    THEN starts_with(flag, "-p") /\ Len(flag) > a.arg
    ELSE starts_with(flag, a.flag)

ArmMatches(a, flag) ==
    IF a.kind = "ports_glued"
    THEN starts_with(flag, "-p") /\ Len(flag) > a.arg
    ELSE a.flag = flag

\* index of the first arm of the table that matches, 0 for the `_` arm
FirstMatch(table, flag) ==
    IF \E i \in 1..Len(table) : ArmMatches(table[i], flag)
    THEN CHOOSE i \in 1..Len(table) :
            /\ ArmMatches(table[i], flag)
            /\ \A j \in 1..(i - 1) : ~ArmMatches(table[j], flag)
    ELSE 0

\* the match of every spelling of the table (computed once)
MatchesOf(table) ==
    [f \in {table[i].flag : i \in 1..Len(table)} |-> FirstMatch(table, f)]

TableMatch == MatchesOf(DispatchTable)

MatchIn(known, table, flag) ==
    IF flag \in DOMAIN known THEN known[flag] ELSE FirstMatch(table, flag)

MatchArm(flag) == MatchIn(TableMatch, DispatchTable, flag)

\* variant: the value is read with peek(), so the iterator keeps it
get_next_value_peek(rest, flag) ==
    IF Len(rest) > 0
    THEN [ok |-> TRUE, val |-> rest[1], taken |-> 0]
    ELSE [ok |-> FALSE, err |-> MissingValue(flag), taken |-> 0]

\* `rest` is what the token iterator still holds after the flag; `taken` is
\* the number of tokens the call removes from it: iter.next() takes one,
\* iter.peek() takes none
get_next_value(rest, flag) ==
    IF Len(rest) > 0
    THEN [ok |-> TRUE, val |-> rest[1], taken |-> 1]
    ELSE [ok |-> FALSE, err |-> MissingValue(flag), taken |-> 0]

peek_next_value(rest) ==
    [val |-> IF Len(rest) > 0 /\ ~starts_with(rest[1], "-")
             THEN Some(rest[1]) ELSE None,
     taken |-> 0]

\* variant: every number is parsed as a u32, whatever the field's width
parse_number_u32(s, flag, max) ==
    IF from_str_unsigned(s, U32_MAX) # None
    THEN Ok(from_str_unsigned(s, U32_MAX)[1])
    ELSE Err(InvalidValue(flag, s))

parse_number(s, flag, max) ==
    IF from_str_unsigned(s, max) # None
    THEN Ok(from_str_unsigned(s, max)[1])
    ELSE Err(InvalidValue(flag, s))

parse_float(s, flag) ==
    IF from_str_f32(s) # None
    THEN Ok(from_str_f32(s)[1])
    ELSE Err(InvalidValue(flag, s))

\* variant: the list ends at the first entry that does not parse
RECURSIVE FilterMapParse_until_bad(_, _)
FilterMapParse_until_bad(parts, max) ==
    IF Len(parts) = 0 \/ from_str_unsigned(parts[1], max) = None THEN <<>>
    ELSE from_str_unsigned(parts[1], max)
           \o FilterMapParse_until_bad(Tail(parts), max)

RECURSIVE FilterMapParse(_, _)
FilterMapParse(parts, max) ==
    IF Len(parts) = 0 THEN <<>>
    ELSE from_str_unsigned(parts[1], max) \o FilterMapParse(Tail(parts), max)

parse_port_list(s) ==
    IF s # None THEN FilterMapParse(split(s[1], ","), U16_MAX) ELSE <<>>

parse_protocol_list(s) ==
    IF s # None THEN FilterMapParse(split(s[1], ","), U8_MAX) ELSE <<>>

saturating_add(a, b) == IF a + b > 255 THEN 255 ELSE a + b


(***************************************************************************)
(* NmapParser::parse_flag.  Returns the Model after the arm, how many      *)
(* tokens the arm pulled from the iterator with next(), and Ok or the      *)
(* error that `?` returns (the assignment is then not made).               *)
(***************************************************************************)
FlagOk(scan, taken) == [scan |-> scan, taken |-> taken, res |-> Ok(TRUE)]
FlagErr(scan, taken, e) == [scan |-> scan, taken |-> taken, res |-> Err(e)]

\* variant: a list field is extended by the new list
Assign_extend(scan, a, v) ==
    IF a.sec = "scan_technique"
    THEN [scan EXCEPT !.scan_technique = v]
    ELSE IF a.kind \in {"strlist", "portlist"}
    THEN [scan EXCEPT ![a.sec][a.field] = @ \o v]
    ELSE [scan EXCEPT ![a.sec][a.field] = v]

Assign(scan, a, v) ==
    IF a.sec = "scan_technique"
    THEN [scan EXCEPT !.scan_technique = v]
    ELSE [scan EXCEPT ![a.sec][a.field] = v]

\* IpAddr::from_str(val).map_err(|_| InvalidValue(flag, val))
parse_ip(s, flag) ==
    IF from_str_ip(s) # None
    THEN Ok(from_str_ip(s)[1])
    ELSE Err(InvalidValue(flag, s))

\* field = Some(coerced value?): the error returns, the value is stored
StoreCoerced(scan, a, next, r) ==
    IF r.ok THEN FlagOk(Assign(scan, a, Some(r.val)), next.taken)
    ELSE FlagErr(scan, next.taken, r.err)

\* the rules that start with `next` = get_next_value(iter, flag)?
ArmWithValue(scan, flag, a, next) ==
    IF ~next.ok THEN FlagErr(scan, next.taken, next.err)
    ELSE IF a.kind \in {"string", "path"}
    THEN FlagOk(Assign(scan, a, Some(next.val)), next.taken)
    ELSE IF a.kind = "technique_arg"
    THEN FlagOk(Assign(scan, a, TechniqueArg(a.arg, next.val)), next.taken)
    ELSE IF a.kind = "strlist"
    THEN FlagOk(Assign(scan, a, split(next.val, a.arg)), next.taken)
    ELSE IF a.kind = "number"
    THEN StoreCoerced(scan, a, next, parse_number(next.val, flag, a.arg))
    ELSE IF a.kind = "float"
    THEN StoreCoerced(scan, a, next, parse_float(next.val, flag))
    ELSE \* a.kind = "ip"
         StoreCoerced(scan, a, next, parse_ip(next.val, flag))

\* the rules `if let Some(val) = peek_next_value(iter) { field = list }`
ArmWithPeek(scan, a, peek) ==
    IF peek.val # None
    THEN FlagOk(Assign(scan, a,
                       IF a.arg = U16_MAX THEN parse_port_list(peek.val)
                       ELSE parse_protocol_list(peek.val)), peek.taken)
    ELSE FlagOk(scan, peek.taken)

\* variant: the glued -p arm stores the whole token
ArmBody_glued_whole(scan, flag, rest, a) ==
    IF a.kind = "bool" THEN FlagOk(Assign(scan, a, TRUE), 0)
    ELSE IF a.kind = "technique" THEN FlagOk(Assign(scan, a, a.arg), 0)
    ELSE IF a.kind = "template" THEN FlagOk(Assign(scan, a, Some(a.arg)), 0)
    ELSE IF a.kind = "count"
    THEN FlagOk(Assign(scan, a, saturating_add(scan[a.sec][a.field], a.arg)), 0)
    ELSE IF a.kind = "ports_glued"
    THEN FlagOk(Assign(scan, a, Some(flag)), 0)
    ELSE IF a.kind = "portlist"
    THEN ArmWithPeek(scan, a, peek_next_value(rest))
    ELSE ArmWithValue(scan, flag, a, get_next_value(rest, flag))

\* the body of arm `a`
ArmBody(scan, flag, rest, a) ==
    IF a.kind = "bool" THEN FlagOk(Assign(scan, a, TRUE), 0)
    ELSE IF a.kind = "technique" THEN FlagOk(Assign(scan, a, a.arg), 0)
    ELSE IF a.kind = "template" THEN FlagOk(Assign(scan, a, Some(a.arg)), 0)
    ELSE IF a.kind = "count"
    THEN FlagOk(Assign(scan, a, saturating_add(scan[a.sec][a.field], a.arg)), 0)
    ELSE IF a.kind = "ports_glued"
    THEN FlagOk(Assign(scan, a, Some(SubSeq(flag, 3, Len(flag)))), 0)
    ELSE IF a.kind = "portlist"
    THEN ArmWithPeek(scan, a, peek_next_value(rest))
    ELSE ArmWithValue(scan, flag, a, get_next_value(rest, flag))

\* `match flag { ... }` with the index of the matching arm
MatchFlag(scan, flag, rest, i) ==
    IF i = 0 THEN FlagErr(scan, 0, InvalidFlag(flag))
    ELSE ArmBody(scan, flag, rest, DispatchTable[i])

parse_flag(scan, flag, rest) == MatchFlag(scan, flag, rest, MatchArm(flag))

(***************************************************************************)
(* One iteration of the `while let` loop of NmapParser::parse.  `i` counts *)
(* the tokens the iterator has yielded so far, so the token it yields now  *)
(* has index i (0-based); `taken` lists the roles of the tokens this       *)
(* iteration pulled from the iterator.                                     *)
(***************************************************************************)
\* after parse_flag returned f
FlagStep(f, i) ==
    [scan |-> f.scan, i |-> i + 1 + f.taken, res |-> f.res,
     taken |-> <<"flag">> \o [j \in 1..f.taken |-> "value"]]

\* variant: the program name is skipped wherever it stands
Classify_skip_any(scan, token, rest, i) ==
    IF token = "nmap"
    THEN [scan |-> scan, i |-> i + 1, res |-> Ok(TRUE), taken |-> <<"program">>]
    ELSE IF starts_with(token, "-")
    THEN FlagStep(parse_flag(scan, token, rest), i)
    ELSE [scan |-> [scan EXCEPT !.target_specification.targets =
                             Append(@, token)],
          i |-> i + 1, res |-> Ok(TRUE), taken |-> <<"target">>]

\* the loop body for `token`, `rest` being what the iterator still holds
Classify(scan, token, rest, i) ==
    IF token = "nmap" /\ i = 0
    THEN [scan |-> scan, i |-> i + 1, res |-> Ok(TRUE), taken |-> <<"program">>]
    ELSE IF starts_with(token, "-")
    THEN FlagStep(parse_flag(scan, token, rest), i)
    ELSE [scan |-> [scan EXCEPT !.target_specification.targets =
                             Append(@, token)],
          i |-> i + 1, res |-> Ok(TRUE), taken |-> <<"target">>]

ParseStep(scan, tokens, i) ==
    Classify(scan, tokens[i + 1], SubSeq(tokens, i + 2, Len(tokens)), i)

(***************************************************************************)
(* Display of the numeric and address values the Builder writes with {}.   *)
(***************************************************************************)
RECURSIVE Zeros(_)
Zeros(n) == IF n <= 0 THEN "" ELSE "0" \o Zeros(n - 1)

\* f32 Display: no exponent notation, "NaN", "inf", "-inf"
fmt_f32(v) ==
    IF v.mant = "nan" THEN "NaN"
    ELSE (IF v.neg THEN "-" ELSE "") \o
         (IF v.mant = "inf" THEN "inf"
          ELSE IF v.exp >= 0 THEN v.mant \o Zeros(v.exp)
          ELSE IF Len(v.mant) > 0 - v.exp
          THEN SubSeq(v.mant, 1, Len(v.mant) + v.exp) \o "."
                 \o SubSeq(v.mant, Len(v.mant) + v.exp + 1, Len(v.mant))
          ELSE "0." \o Zeros(0 - v.exp - Len(v.mant)) \o v.mant)

RECURSIVE to_hex(_)
to_hex(n) ==
    IF n < 16 THEN HexDigits[n + 1]
    ELSE to_hex(n \div 16) \o HexDigits[(n % 16) + 1]

fmt_ipv4(o) ==
    to_string(o[1]) \o "." \o to_string(o[2]) \o "." \o to_string(o[3])
        \o "." \o to_string(o[4])

\* length of the run of zero groups that starts at group i
RECURSIVE ZeroRun(_, _)
ZeroRun(g, i) == IF i <= Len(g) /\ g[i] = 0 THEN 1 + ZeroRun(g, i + 1) ELSE 0

\* Ipv6Addr Display: "::ffff:a.b.c.d" for an IPv4-mapped address, else the
\* first longest run of two or more zero groups is written "::"
fmt_ipv6(g) ==
    LET hex(a, b) == join([i \in 1..(b - a + 1) |-> to_hex(g[a + i - 1])], ":")
        best == CHOOSE i \in 1..8 :
                   /\ \A j \in 1..8 : ZeroRun(g, j) <= ZeroRun(g, i)
                   /\ \A j \in 1..(i - 1) : ZeroRun(g, j) < ZeroRun(g, i)
        n == ZeroRun(g, best)
    IN  IF (\A i \in 1..5 : g[i] = 0) /\ g[6] = 65535
        THEN "::ffff:" \o fmt_ipv4(<<g[7] \div 256, g[7] % 256,
                                     g[8] \div 256, g[8] % 256>>)
        ELSE IF n > 1
        THEN hex(1, best - 1) \o "::" \o hex(best + n, 8)
        ELSE hex(1, 8)

fmt_ip(a) == IF a.v = 4 THEN fmt_ipv4(a.o) ELSE fmt_ipv6(a.g)

(***************************************************************************)
(* NmapCommandBuilder helpers (builder.rs)                                 *)
(***************************************************************************)
\* variant: the ports are written last to first
format_port_list_reversed(ports) ==
    join([i \in 1..Len(ports) |-> to_string(ports[Len(ports) + 1 - i])], ",")

format_port_list(ports) ==
    join([i \in 1..Len(ports) |-> to_string(ports[i])], ",")

format_protocol_list(protocols) ==
    join([i \in 1..Len(protocols) |-> to_string(protocols[i])], ",")

\* variant: a tab does not call for quotes
quote_if_needed_no_tab(s) ==
    IF contains(s, " ") \/ contains(s, "\"")
    THEN "\"" \o replace(s, "\"", "\\\"") \o "\""
    ELSE s

quote_if_needed(s) ==
    IF contains(s, " ") \/ contains(s, "\t") \/ contains(s, "\"")
    THEN "\"" \o replace(s, "\"", "\\\"") \o "\""
    ELSE s

\* Path::to_string_lossy is the path's text for the UTF-8 paths of the model
quote_path(path) == quote_if_needed(path)

\* variant: the token of a boolean is written whatever its value
PushIf_always(b, text) == text

\* the recurring shapes of the builder's statements
PushIf(b, text) == IF b THEN text ELSE ""
WriteSome(opt, text, shown) == IF opt # None THEN text \o shown ELSE ""
WriteList(list, text, shown) == IF Len(list) > 0 THEN text \o shown ELSE ""
JoinComma(list) == join(list, ",")


(***************************************************************************)
(* NmapCommandBuilder::build and its sections: each returns the text the   *)
(* Rust function appends to cmd.                                           *)
(***************************************************************************)
build_host_discovery(hd) ==
    PushIf(hd.list_scan, " -sL")
    \o PushIf(hd.ping_scan, " -sn")
    \o PushIf(hd.skip_port_scan, " -Pn")
    \o WriteList(hd.syn_discovery, " -PS", format_port_list(hd.syn_discovery))
    \o WriteList(hd.ack_discovery, " -PA", format_port_list(hd.ack_discovery))
    \o WriteList(hd.udp_discovery, " -PU", format_port_list(hd.udp_discovery))
    \o WriteList(hd.sctp_discovery, " -PY", format_port_list(hd.sctp_discovery))
    \o PushIf(hd.icmp_echo, " -PE")
    \o PushIf(hd.icmp_timestamp, " -PP")
    \o PushIf(hd.icmp_netmask, " -PM")
    \o WriteList(hd.ip_protocol_ping, " -PO", format_protocol_list(hd.ip_protocol_ping))
    \o PushIf(hd.traceroute, " --traceroute")
    \o WriteList(hd.dns_servers, " --dns-servers ", JoinComma(hd.dns_servers))
    \o PushIf(hd.system_dns, " --system-dns")

TechniqueFlag ==
    [Syn |-> " -sS", Connect |-> " -sT", Ack |-> " -sA", Window |-> " -sW",
     Maimon |-> " -sM", Udp |-> " -sU", TcpNull |-> " -sN", Fin |-> " -sF",
     Xmas |-> " -sX", IpProtocol |-> " -sO"]

\* variant: the members of a composite are written last to first
RECURSIVE build_scan_technique_reversed(_)
build_scan_technique_reversed(st) ==
    IF st.tag \in DOMAIN TechniqueFlag THEN TechniqueFlag[st.tag]
    ELSE IF st.tag = "Scanflags" THEN " --scanflags " \o quote_if_needed(st.arg)
    ELSE IF st.tag = "Idle" THEN " -sI " \o quote_if_needed(st.arg)
    ELSE IF st.tag = "Sctp" THEN (IF st.arg = "Init" THEN " -sY" ELSE " -sZ")
    ELSE IF st.tag = "Ftp" THEN " -b " \o quote_if_needed(st.arg)
    ELSE IF Len(st.list) = 0 THEN ""
    ELSE build_scan_technique_reversed(Multiple(Tail(st.list)))
           \o build_scan_technique_reversed(st.list[1])

RECURSIVE build_scan_technique(_)
build_scan_technique(st) ==
    IF st.tag \in DOMAIN TechniqueFlag THEN TechniqueFlag[st.tag]
    ELSE IF st.tag = "Scanflags" THEN " --scanflags " \o quote_if_needed(st.arg)
    ELSE IF st.tag = "Idle" THEN " -sI " \o quote_if_needed(st.arg)
    ELSE IF st.tag = "Sctp" THEN (IF st.arg = "Init" THEN " -sY" ELSE " -sZ")
    ELSE IF st.tag = "Ftp" THEN " -b " \o quote_if_needed(st.arg)
    ELSE \* Multiple
         IF Len(st.list) = 0 THEN ""
         ELSE build_scan_technique(st.list[1])
                \o build_scan_technique(Multiple(Tail(st.list)))

build_port_specification(ps) ==
    WriteSome(ps.ports, " -p ", quote_if_needed(ps.ports[1]))
    \o WriteSome(ps.exclude_ports, " --exclude-ports ", quote_if_needed(ps.exclude_ports[1]))
    \o PushIf(ps.fast_mode, " -F")
    \o PushIf(ps.consecutive_ports, " -r")
    \o WriteSome(ps.top_ports, " --top-ports ", to_string(ps.top_ports[1]))
    \o WriteSome(ps.port_ratio, " --port-ratio ", fmt_f32(ps.port_ratio[1]))

build_service_detection(sd) ==
    PushIf(sd.enabled, " -sV")
    \o WriteSome(sd.intensity, " --version-intensity ", to_string(sd.intensity[1]))
    \o PushIf(sd.light, " --version-light")
    \o PushIf(sd.all, " --version-all")
    \o PushIf(sd.trace, " --version-trace")

build_script_scan(ss) ==
    PushIf(ss.default, " -sC")
    \o WriteList(ss.scripts, " --script ", JoinComma(ss.scripts))
    \o WriteSome(ss.script_args, " --script-args ", quote_if_needed(ss.script_args[1]))
    \o WriteSome(ss.script_args_file, " --script-args-file ", quote_path(ss.script_args_file[1]))
    \o PushIf(ss.script_trace, " --script-trace")
    \o PushIf(ss.script_updatedb, " --script-updatedb")
    \o WriteSome(ss.script_help, " --script-help ", quote_if_needed(ss.script_help[1]))

build_os_detection(od) ==
    PushIf(od.enabled, " -O")
    \o PushIf(od.limit, " --osscan-limit")
    \o PushIf(od.guess, " --osscan-guess")
    \o WriteSome(od.max_retries, " --max-os-tries ", to_string(od.max_retries[1]))

TemplateDigit(t) == to_string(TimingTemplate_as_u8(t))

build_timing_performance(tp) ==
    WriteSome(tp.template, " -T", TemplateDigit(tp.template[1]))
    \o WriteSome(tp.min_hostgroup, " --min-hostgroup ", to_string(tp.min_hostgroup[1]))
    \o WriteSome(tp.max_hostgroup, " --max-hostgroup ", to_string(tp.max_hostgroup[1]))
    \o WriteSome(tp.min_parallelism, " --min-parallelism ", to_string(tp.min_parallelism[1]))
    \o WriteSome(tp.max_parallelism, " --max-parallelism ", to_string(tp.max_parallelism[1]))
    \o WriteSome(tp.min_rtt_timeout, " --min-rtt-timeout ", quote_if_needed(tp.min_rtt_timeout[1]))
    \o WriteSome(tp.max_rtt_timeout, " --max-rtt-timeout ", quote_if_needed(tp.max_rtt_timeout[1]))
    \o WriteSome(tp.initial_rtt_timeout, " --initial-rtt-timeout ", quote_if_needed(tp.initial_rtt_timeout[1]))
    \o WriteSome(tp.max_retries, " --max-retries ", to_string(tp.max_retries[1]))
    \o WriteSome(tp.host_timeout, " --host-timeout ", quote_if_needed(tp.host_timeout[1]))
    \o WriteSome(tp.script_timeout, " --script-timeout ", quote_if_needed(tp.script_timeout[1]))
    \o WriteSome(tp.scan_delay, " --scan-delay ", quote_if_needed(tp.scan_delay[1]))
    \o WriteSome(tp.max_scan_delay, " --max-scan-delay ", quote_if_needed(tp.max_scan_delay[1]))
    \o WriteSome(tp.min_rate, " --min-rate ", to_string(tp.min_rate[1]))
    \o WriteSome(tp.max_rate, " --max-rate ", to_string(tp.max_rate[1]))
    \o PushIf(tp.defeat_rst_ratelimit, " --defeat-rst-ratelimit")
    \o PushIf(tp.defeat_icmp_ratelimit, " --defeat-icmp-ratelimit")
    \o WriteSome(tp.nsock_engine, " --nsock-engine ", quote_if_needed(tp.nsock_engine[1]))

build_evasion_spoofing(es) ==
    PushIf(es.fragment_packets, " -f")
    \o WriteSome(es.mtu, " --mtu ", to_string(es.mtu[1]))
    \o WriteList(es.decoys, " -D ", JoinComma(es.decoys))
    \o WriteSome(es.spoof_ip, " -S ", fmt_ip(es.spoof_ip[1]))
    \o WriteSome(es.interface, " -e ", quote_if_needed(es.interface[1]))
    \o WriteSome(es.source_port, " -g ", to_string(es.source_port[1]))
    \o WriteSome(es.data, " --data ", quote_if_needed(es.data[1]))
    \o WriteSome(es.data_string, " --data-string ", quote_if_needed(es.data_string[1]))
    \o WriteSome(es.data_length, " --data-length ", to_string(es.data_length[1]))
    \o WriteSome(es.ip_options, " --ip-options ", quote_if_needed(es.ip_options[1]))
    \o WriteSome(es.ttl, " --ttl ", to_string(es.ttl[1]))
    \o PushIf(es.randomize_hosts, " --randomize-hosts")
    \o WriteSome(es.spoof_mac, " --spoof-mac ", quote_if_needed(es.spoof_mac[1]))
    \o PushIf(es.badsum, " --badsum")
    \o PushIf(es.adler32, " --adler32")

\* `for _ in 0..n { cmd.push_str(text) }`
RECURSIVE Repeat(_, _)
Repeat(text, n) ==
    IF n <= 0 THEN "" ELSE IF n = 1 THEN text
    ELSE Repeat(text, n \div 2) \o Repeat(text, n - (n \div 2))

\* variant: a count of three or more is written in pairs
StackedCount_pairs(n, one, two) ==
    IF n = 0 THEN "" ELSE IF n = 1 THEN one ELSE IF n = 2 THEN two
    ELSE Repeat(two, n \div 2) \o Repeat(one, n % 2)

\* the match on out.verbose / out.debug
StackedCount(n, one, two) ==
    IF n = 0 THEN "" ELSE IF n = 1 THEN one ELSE IF n = 2 THEN two
    ELSE Repeat(one, n)

build_output(out) ==
    WriteSome(out.normal, " -oN ", quote_path(out.normal[1]))
    \o WriteSome(out.xml, " -oX ", quote_path(out.xml[1]))
    \o WriteSome(out.script_kiddie, " -oS ", quote_path(out.script_kiddie[1]))
    \o WriteSome(out.grepable, " -oG ", quote_path(out.grepable[1]))
    \o WriteSome(out.all_formats, " -oA ", quote_if_needed(out.all_formats[1]))
    \o StackedCount(out.verbose, " -v", " -vv")
    \o StackedCount(out.debug, " -d", " -dd")
    \o PushIf(out.reason, " --reason")
    \o WriteSome(out.stats_every, " --stats-every ", quote_if_needed(out.stats_every[1]))
    \o PushIf(out.packet_trace, " --packet-trace")
    \o PushIf(out.open_only, " --open")
    \o PushIf(out.iflist, " --iflist")
    \o PushIf(out.append_output, " --append-output")
    \o WriteSome(out.resume, " --resume ", quote_path(out.resume[1]))
    \o WriteSome(out.stylesheet, " --stylesheet ", quote_path(out.stylesheet[1]))
    \o PushIf(out.webxml, " --webxml")
    \o PushIf(out.no_stylesheet, " --no-stylesheet")

build_misc(misc) ==
    PushIf(misc.ipv6, " -6")
    \o PushIf(misc.aggressive, " -A")
    \o WriteSome(misc.datadir, " --datadir ", quote_path(misc.datadir[1]))
    \o PushIf(misc.send_eth, " --send-eth")
    \o PushIf(misc.send_ip, " --send-ip")
    \o PushIf(misc.privileged, " --privileged")
    \o PushIf(misc.unprivileged, " --unprivileged")
    \o PushIf(misc.release_memory, " --release-memory")
    \o PushIf(misc.version, " -V")
    \o PushIf(misc.help, " -h")
    \o PushIf(misc.resolve_all, " -R")
    \o PushIf(misc.no_resolve, " -n")
    \o PushIf(misc.unique, " --unique")
    \o PushIf(misc.log_errors, " --log-errors")

RECURSIVE WriteTargets(_)
WriteTargets(targets) ==
    IF Len(targets) = 0 THEN ""
    ELSE " " \o quote_if_needed(targets[1]) \o WriteTargets(Tail(targets))

\* reads the target fields of the Model (scan.input_file, scan.targets, ...
\* in builder.rs are the TargetSpecification fields of model.rs)
build_target_specification(scan) ==
    LET ts == scan.target_specification
    IN  WriteSome(ts.input_file, " -iL ", quote_path(ts.input_file[1]))
        \o WriteSome(ts.random_targets, " -iR ", to_string(ts.random_targets[1]))
        \o WriteList(ts.exclude, " --exclude ", JoinComma(ts.exclude))
        \o WriteSome(ts.exclude_file, " --exclude-file ", quote_path(ts.exclude_file[1]))
        \o WriteTargets(ts.targets)

\* variant: the miscellaneous section is written before the output section
build_misc_before_output(scan) ==
    "nmap"
    \o build_host_discovery(scan.host_discovery)
    \o build_scan_technique(scan.scan_technique)
    \o build_port_specification(scan.ports)
    \o build_service_detection(scan.service_detection)
    \o build_script_scan(scan.script_scan)
    \o build_os_detection(scan.os_detection)
    \o build_timing_performance(scan.timing)
    \o build_evasion_spoofing(scan.evasion)
    \o build_misc(scan.misc)
    \o build_output(scan.output)
    \o build_target_specification(scan)

build(scan) ==
    "nmap"
    \o build_host_discovery(scan.host_discovery)
    \o build_scan_technique(scan.scan_technique)
    \o build_port_specification(scan.ports)
    \o build_service_detection(scan.service_detection)
    \o build_script_scan(scan.script_scan)
    \o build_os_detection(scan.os_detection)
    \o build_timing_performance(scan.timing)
    \o build_evasion_spoofing(scan.evasion)
    \o build_output(scan.output)
    \o build_misc(scan.misc)
    \o build_target_specification(scan)


(***************************************************************************)
(* The fields of the Model with their declared types (model.rs), used to   *)
(* enumerate Models.                                                       *)
(***************************************************************************)
Fields == <<
    <<"target_specification", "targets", "Vec<String>">>,
    <<"target_specification", "input_file", "Option<PathBuf>">>,
    <<"target_specification", "random_targets", "Option<u32>">>,
    <<"target_specification", "exclude", "Vec<String>">>,
    <<"target_specification", "exclude_file", "Option<PathBuf>">>,
    <<"host_discovery", "list_scan", "bool">>,
    <<"host_discovery", "ping_scan", "bool">>,
    <<"host_discovery", "skip_port_scan", "bool">>,
    <<"host_discovery", "syn_discovery", "Vec<u16>">>,
    <<"host_discovery", "ack_discovery", "Vec<u16>">>,
    <<"host_discovery", "udp_discovery", "Vec<u16>">>,
    <<"host_discovery", "sctp_discovery", "Vec<u16>">>,
    <<"host_discovery", "icmp_echo", "bool">>,
    <<"host_discovery", "icmp_timestamp", "bool">>,
    <<"host_discovery", "icmp_netmask", "bool">>,
    <<"host_discovery", "ip_protocol_ping", "Vec<u8>">>,
    <<"host_discovery", "dns_servers", "Vec<String>">>,
    <<"host_discovery", "system_dns", "bool">>,
    <<"host_discovery", "traceroute", "bool">>,
    <<"ports", "ports", "Option<String>">>,
    <<"ports", "exclude_ports", "Option<String>">>,
    <<"ports", "fast_mode", "bool">>,
    <<"ports", "consecutive_ports", "bool">>,
    <<"ports", "top_ports", "Option<u32>">>,
    <<"ports", "port_ratio", "Option<f32>">>,
    <<"service_detection", "enabled", "bool">>,
    <<"service_detection", "intensity", "Option<u8>">>,
    <<"service_detection", "light", "bool">>,
    <<"service_detection", "all", "bool">>,
    <<"service_detection", "trace", "bool">>,
    <<"script_scan", "default", "bool">>,
    <<"script_scan", "scripts", "Vec<String>">>,
    <<"script_scan", "script_args", "Option<String>">>,
    <<"script_scan", "script_args_file", "Option<PathBuf>">>,
    <<"script_scan", "script_trace", "bool">>,
    <<"script_scan", "script_updatedb", "bool">>,
    <<"script_scan", "script_help", "Option<String>">>,
    <<"os_detection", "enabled", "bool">>,
    <<"os_detection", "limit", "bool">>,
    <<"os_detection", "guess", "bool">>,
    <<"os_detection", "max_retries", "Option<u32>">>,
    <<"timing", "template", "Option<TimingTemplate>">>,
    <<"timing", "min_hostgroup", "Option<u32>">>,
    <<"timing", "max_hostgroup", "Option<u32>">>,
    <<"timing", "min_parallelism", "Option<u32>">>,
    <<"timing", "max_parallelism", "Option<u32>">>,
    <<"timing", "min_rtt_timeout", "Option<String>">>,
    <<"timing", "max_rtt_timeout", "Option<String>">>,
    <<"timing", "initial_rtt_timeout", "Option<String>">>,
    <<"timing", "max_retries", "Option<u32>">>,
    <<"timing", "host_timeout", "Option<String>">>,
    <<"timing", "script_timeout", "Option<String>">>,
    <<"timing", "scan_delay", "Option<String>">>,
    <<"timing", "max_scan_delay", "Option<String>">>,
    <<"timing", "min_rate", "Option<u32>">>,
    <<"timing", "max_rate", "Option<u32>">>,
    <<"timing", "defeat_rst_ratelimit", "bool">>,
    <<"timing", "defeat_icmp_ratelimit", "bool">>,
    <<"timing", "nsock_engine", "Option<String>">>,
    <<"evasion", "fragment_packets", "bool">>,
    <<"evasion", "mtu", "Option<u32>">>,
    <<"evasion", "decoys", "Vec<String>">>,
    <<"evasion", "spoof_ip", "Option<IpAddr>">>,
    <<"evasion", "interface", "Option<String>">>,
    <<"evasion", "source_port", "Option<u16>">>,
    <<"evasion", "data", "Option<String>">>,
    <<"evasion", "data_string", "Option<String>">>,
    <<"evasion", "data_length", "Option<u32>">>,
    <<"evasion", "ip_options", "Option<String>">>,
    <<"evasion", "ttl", "Option<u8>">>,
    <<"evasion", "randomize_hosts", "bool">>,
    <<"evasion", "spoof_mac", "Option<String>">>,
    <<"evasion", "badsum", "bool">>,
    <<"evasion", "adler32", "bool">>,
    <<"output", "normal", "Option<PathBuf>">>,
    <<"output", "xml", "Option<PathBuf>">>,
    <<"output", "script_kiddie", "Option<PathBuf>">>,
    <<"output", "grepable", "Option<PathBuf>">>,
    <<"output", "all_formats", "Option<String>">>,
    <<"output", "verbose", "u8">>,
    <<"output", "debug", "u8">>,
    <<"output", "reason", "bool">>,
    <<"output", "stats_every", "Option<String>">>,
    <<"output", "packet_trace", "bool">>,
    <<"output", "open_only", "bool">>,
    <<"output", "iflist", "bool">>,
    <<"output", "append_output", "bool">>,
    <<"output", "resume", "Option<PathBuf>">>,
    <<"output", "stylesheet", "Option<PathBuf>">>,
    <<"output", "webxml", "bool">>,
    <<"output", "no_stylesheet", "bool">>,
    <<"misc", "ipv6", "bool">>,
    <<"misc", "aggressive", "bool">>,
    <<"misc", "datadir", "Option<PathBuf>">>,
    <<"misc", "send_eth", "bool">>,
    <<"misc", "send_ip", "bool">>,
    <<"misc", "privileged", "bool">>,
    <<"misc", "unprivileged", "bool">>,
    <<"misc", "release_memory", "bool">>,
    <<"misc", "version", "bool">>,
    <<"misc", "help", "bool">>,
    <<"misc", "resolve_all", "bool">>,
    <<"misc", "no_resolve", "bool">>,
    <<"misc", "unique", "bool">>,
    <<"misc", "log_errors", "bool">> >>

(***************************************************************************)
(* Bounded inputs.                                                         *)
(***************************************************************************)
MaxTextLen == 2
MaxChars == 4

RECURSIVE Strings(_, _)
Strings(alphabet, n) ==
    IF n = 0 THEN {""}
    ELSE Strings(alphabet, n - 1)
           \cup {s \o c : s \in Strings(alphabet, n - 1), c \in alphabet}

TextAlphabet == {"a", " ", "\t", "\n", "\"", "\\"}

SampleTexts == {"ab", "a b", "say \"hi\""}

ValuesOf(sec, field, type) ==
    CASE type = "bool" -> {TRUE}
      [] type = "u8" -> 0..255
      [] type = "Option<u8>" -> {Some(0), Some(255)}
      [] type = "Option<u16>" -> {Some(0), Some(65535)}
      [] type = "Option<u32>" -> {Some(0), Some(1000)}
      [] type = "Option<f32>" -> {from_str_f32("0.5"), from_str_f32("12")}
      [] type = "Option<IpAddr>" -> {from_str_ip("10.0.0.99"), from_str_ip("fe80::1")}
      [] type = "Option<TimingTemplate>" ->
            {Some(TimingTemplate[i]) : i \in 1..Len(TimingTemplate)}
      [] type \in {"Option<String>", "Option<PathBuf>"} ->
            {Some(t) : t \in SampleTexts}
              \cup (IF field = "data_string"
                    THEN {Some(t) : t \in Strings(TextAlphabet, MaxTextLen)}
                    ELSE {})
      [] type = "Vec<String>" ->
            {<<"a">>, <<"b", "a", "b">>}
              \cup (IF field = "targets" THEN {<<"host", "nmap">>, <<"a b">>} ELSE {})
      [] type = "Vec<u16>" -> {<<80>>, <<443, 80, 80>>, <<0, 65535>>}
      [] type = "Vec<u8>" -> {<<1>>, <<6, 1, 6>>, <<0, 255>>}

Techniques ==
    {Technique(t) : t \in DOMAIN TechniqueFlag}
      \cup {TechniqueArg("Sctp", "Init"), TechniqueArg("Sctp", "Cookie")}
      \cup {TechniqueArg(t, a) : t \in {"Scanflags", "Idle", "Ftp"}, a \in SampleTexts}
      \cup {Multiple(<<>>), Multiple(<<Technique("Udp")>>),
            Multiple(<<Technique("Syn"), Multiple(<<Technique("Udp")>>)>>),
            Multiple(<<TechniqueArg("Idle", "a b"),
                       Multiple(<<TechniqueArg("Sctp", "Cookie"), Multiple(<<>>),
                                  TechniqueArg("Ftp", "ab")>>),
                       Technique("Xmas"), Technique("Xmas")>>)}

\* one setting per section of the Model, in the order of its declaration
SectionSamples == <<
    <<"target_specification", "targets", <<"host", "a b">>>>,
    <<"host_discovery", "dns_servers", <<"b", "a", "b">>>>,
    <<"scan_technique", "", TechniqueArg("Idle", "a b")>>,
    <<"ports", "ports", Some("80,443")>>,
    <<"service_detection", "enabled", TRUE>>,
    <<"script_scan", "scripts", <<"a">>>>,
    <<"os_detection", "max_retries", Some(1000)>>,
    <<"timing", "template", Some("Aggressive")>>,
    <<"evasion", "data_string", Some("a b")>>,
    <<"output", "verbose", 3>>,
    <<"misc", "ipv6", TRUE>>,
    <<"target_specification", "exclude", <<"a">>>> >>

\* the Model m with the settings numbered 1..n that are in `picks`
RECURSIVE WithSamples(_, _, _)
WithSamples(m, picks, n) ==
    IF n = 0 THEN m
    ELSE IF n \notin picks THEN WithSamples(m, picks, n - 1)
    ELSE IF SectionSamples[n][1] = "scan_technique"
    THEN [WithSamples(m, picks, n - 1) EXCEPT
              !.scan_technique = SectionSamples[n][3]]
    ELSE [WithSamples(m, picks, n - 1) EXCEPT
              ![SectionSamples[n][1]][SectionSamples[n][2]] = SectionSamples[n][3]]

\* Models with settings in several sections at once
MixedModels ==
    {WithSamples(NmapScan_new, picks, Len(SectionSamples)) :
        picks \in SUBSET (1..Len(SectionSamples))}

\* the all-default Model, the Models that differ from it in one field, and
\* the Models with several sections set
Models ==
    MixedModels
      \cup {NmapScan_new}
      \cup UNION {{[NmapScan_new EXCEPT ![Fields[i][1]][Fields[i][2]] = v] :
                      v \in ValuesOf(Fields[i][1], Fields[i][2], Fields[i][3])} :
                   i \in 1..Len(Fields)}
      \cup {[NmapScan_new EXCEPT !.scan_technique = t] : t \in Techniques}


\* the spellings of the dispatch table, and tokens that are not in it
TableFlags == {DispatchTable[i].flag : i \in 1..Len(DispatchTable)}

OtherFlags == {"--bogus-flag", "-", "-PS80,443", "-p-", "-p80", "-vvv", "-T6", "-sl"}

ValueTokens ==
    {"80", "256", "70000", "4294967296", "not-a-number", "+7", "10.0.0.1",
     "80,x,,70000,443", "0.5", "host", "nmap", "-sn", "--bogus-flag"}

FollowTokens == {"host", "80", "nmap", "-sn", "--bogus-flag"}

SpaceJoin(ts) == join(ts, " ")

\* command lines around every flag: alone, with a value and a follower,
\* and twice with two values
Commands ==
    {SpaceJoin(<<f>>) : f \in TableFlags \cup OtherFlags}
      \cup {SpaceJoin(<<"nmap", f>>) : f \in TableFlags \cup OtherFlags}
      \cup {SpaceJoin(<<"nmap", f, v, w>>) :
              f \in TableFlags \cup OtherFlags, v \in ValueTokens, w \in FollowTokens}
      \cup {SpaceJoin(<<f, v, f, w>>) :
              f \in TableFlags \cup OtherFlags, v \in ValueTokens, w \in ValueTokens}
      \cup {"nmap -sS -p 80,443 192.168.1.1", "nmap -iR not-a-number host",
            "nmap --bogus-flag host", "nmap -PS 80 host",
            "nmap -sL -sn -Pn 192.168.1.0/24", "host nmap host -sn nmap",
            "nmap -sS -sV -O -p- -T4 --min-rate 1000 -oA full_scan 192.168.1.1",
            "-vv -v -vv -d -dd -d", "nmap" \o Repeat(" -vv", 128)}

\* raw texts for the tokenizer
Texts ==
    Strings(TextAlphabet, MaxChars)
      \cup {"\"a b\" c", "\"a\\\"b\" c", "a \"b c", "\"a\tb\nc\" d"}

\* the Model the session holds while a command is parsed
PriorModels ==
    {NmapScan_new,
     [NmapScan_new EXCEPT !.host_discovery.syn_discovery = <<22>>,
                          !.target_specification.targets = <<"old">>]}

(***************************************************************************)
(* Field Registry (src/src/scan/flags.rs).  NmapFlag is the enum's list of *)
(* variants in declaration order, which is the order NmapFlag::iter()      *)
(* yields.  get_flag_value gives, for an identifier, the tag of the        *)
(* FlagValue it returns and the Model field the reference inside points    *)
(* to; the tag of an Option<u32> field is FlagValue::Int in flags.rs and   *)
(* is spelled FlagValue::U32 by the callers in src/src/tui.                *)
(***************************************************************************)
NmapFlag ==
    <<"Targets", "InputFile", "Exclude", "ExcludeFile", "RandomTargets",
      "ListScan", "PingScan", "SkipPortScan", "Traceroute",
      "SynDiscovery", "AckDiscovery", "UdpDiscovery", "SctpDiscovery",
      "IcmpEcho", "IcmpTimestamp", "IcmpNetmask", "IpProtocolPing",
      "SystemDns", "NoResolve", "AlwaysResolve", "DnsServers",
      "TimingTemplate">>

\* variant: Exclude resolves to the list of targets
get_flag_value_aliased(flag) ==
    LET i == CHOOSE k \in 1..Len(NmapFlag) : NmapFlag[k] = flag
    IN  [tag |-> <<"VecString", "Path", "VecString", "Path", "Int",
                   "Bool", "Bool", "Bool", "Bool",
                   "VecInt", "VecInt", "VecInt", "VecInt",
                   "Bool", "Bool", "Bool", "VecInt",
                   "Bool", "Bool", "Bool", "VecString", "TimingTemplate">>[i],
         sec |-> IF i <= 5 THEN "target_specification"
                 ELSE IF i = 22 THEN "timing" ELSE "host_discovery",
         field |-> <<"targets", "input_file", "targets", "exclude_file",
                     "random_targets",
                     "list_scan", "ping_scan", "skip_port_scan", "traceroute",
                     "syn_discovery", "ack_discovery", "udp_discovery",
                     "sctp_discovery",
                     "icmp_echo", "icmp_timestamp", "icmp_netmask",
                     "ip_protocol_ping",
                     "system_dns", "no_resolve", "always_resolve",
                     "dns_servers", "template">>[i]]

get_flag_value(flag) ==
    CASE flag = "Targets" ->
           [tag |-> "VecString", sec |-> "target_specification", field |-> "targets"]
      [] flag = "InputFile" ->
           [tag |-> "Path", sec |-> "target_specification", field |-> "input_file"]
      [] flag = "Exclude" ->
           [tag |-> "VecString", sec |-> "target_specification", field |-> "exclude"]
      [] flag = "ExcludeFile" ->
           [tag |-> "Path", sec |-> "target_specification", field |-> "exclude_file"]
      [] flag = "RandomTargets" ->
           [tag |-> "Int", sec |-> "target_specification", field |-> "random_targets"]
      [] flag = "ListScan" ->
           [tag |-> "Bool", sec |-> "host_discovery", field |-> "list_scan"]
      [] flag = "PingScan" ->
           [tag |-> "Bool", sec |-> "host_discovery", field |-> "ping_scan"]
      [] flag = "SkipPortScan" ->
           [tag |-> "Bool", sec |-> "host_discovery", field |-> "skip_port_scan"]
      [] flag = "Traceroute" ->
           [tag |-> "Bool", sec |-> "host_discovery", field |-> "traceroute"]
      [] flag = "SynDiscovery" ->
           [tag |-> "VecInt", sec |-> "host_discovery", field |-> "syn_discovery"]
      [] flag = "AckDiscovery" ->
           [tag |-> "VecInt", sec |-> "host_discovery", field |-> "ack_discovery"]
      [] flag = "UdpDiscovery" ->
           [tag |-> "VecInt", sec |-> "host_discovery", field |-> "udp_discovery"]
      [] flag = "SctpDiscovery" ->
           [tag |-> "VecInt", sec |-> "host_discovery", field |-> "sctp_discovery"]
      [] flag = "IcmpEcho" ->
           [tag |-> "Bool", sec |-> "host_discovery", field |-> "icmp_echo"]
      [] flag = "IcmpTimestamp" ->
           [tag |-> "Bool", sec |-> "host_discovery", field |-> "icmp_timestamp"]
      [] flag = "IcmpNetmask" ->
           [tag |-> "Bool", sec |-> "host_discovery", field |-> "icmp_netmask"]
      [] flag = "IpProtocolPing" ->
           [tag |-> "VecInt", sec |-> "host_discovery", field |-> "ip_protocol_ping"]
      [] flag = "SystemDns" ->
           [tag |-> "Bool", sec |-> "host_discovery", field |-> "system_dns"]
      [] flag = "NoResolve" ->
           [tag |-> "Bool", sec |-> "host_discovery", field |-> "no_resolve"]
      [] flag = "AlwaysResolve" ->
           [tag |-> "Bool", sec |-> "host_discovery", field |-> "always_resolve"]
      [] flag = "DnsServers" ->
           [tag |-> "VecString", sec |-> "host_discovery", field |-> "dns_servers"]
      [] flag = "TimingTemplate" ->
           [tag |-> "TimingTemplate", sec |-> "timing", field |-> "template"]

\* variant: the successor of the last identifier is the last identifier
next_saturating(flag) ==
    LET index == CHOOSE i \in 1..Len(NmapFlag) : NmapFlag[i] = flag
    IN  NmapFlag[IF index = Len(NmapFlag) THEN index ELSE index + 1]

\* flags[(index + 1) % flags.len()], with index counted from 0
next(flag) ==
    LET index == (CHOOSE i \in 1..Len(NmapFlag) : NmapFlag[i] = flag) - 1
    IN  NmapFlag[((index + 1) % Len(NmapFlag)) + 1]

\* flags[(index + flags.len() - 1) % flags.len()]
prev(flag) ==
    LET index == (CHOOSE i \in 1..Len(NmapFlag) : NmapFlag[i] = flag) - 1
    IN  NmapFlag[((index + Len(NmapFlag) - 1) % Len(NmapFlag)) + 1]

\* variant: the enumeration is entered at its far end
first_from_end == NmapFlag[Len(NmapFlag)]

\* NmapFlag::iter().next().unwrap()
first == NmapFlag[1]

\* variant: the list fields report the arity of their element type too
get_variant_count_lists(flag) ==
    IF get_flag_value(flag).tag \in {"TimingTemplate", "VecInt"}
    THEN Some(Len(TimingTemplate))
    ELSE None

\* TimingTemplate::COUNT is the number of variants of the enum
get_variant_count(flag) ==
    IF flag = "TimingTemplate" THEN Some(Len(TimingTemplate)) ELSE None

\* TimingTemplate::from_index: the variant whose discriminant is index
from_index(index) ==
    IF index < Len(TimingTemplate) THEN Some(TimingTemplate[index + 1]) ELSE None

(***************************************************************************)
(* Text inputs (src/src/tui/widgets/text_input.rs).  A widget is a record: *)
(* kind is the variant of InputWidget, content and cursor are InputBuffer, *)
(* error is TextInput::error, and mode, suggestions and selected_idx are   *)
(* CompletingInput::mode and its PathCompleter (a TextInput keeps them at  *)
(* their initial values).  The characters are ASCII, so a byte position is *)
(* a character position.  A key is the name of its KeyCode, a character    *)
(* key the character itself; modifiers are left out.                       *)
(***************************************************************************)
\* the keys a user presses: characters, and the named keys
Keys ==
    {"q", "1", ",", " "}
      \cup {"Enter", "Esc", "Backspace", "Delete", "Left", "Right", "Home",
            "End", "Up", "Down", "Tab", "F1"}

\* str::trim for the one white-space character of Keys
RECURSIVE trim(_)
trim(s) ==
    IF s = "" THEN ""
    ELSE IF Ch(s, 1) = " " THEN trim(SubSeq(s, 2, Len(s)))
    ELSE IF Ch(s, Len(s)) = " " THEN trim(SubSeq(s, 1, Len(s) - 1))
    ELSE s

\* Parser::parse of the parser a widget of this kind holds
Parser_parse(kind, input) ==
    LET parts == split(input, ",")
        items == SelectSeq([i \in 1..Len(parts) |-> trim(parts[i])],
                           LAMBDA s : s # "")
    IN  CASE kind = "String" -> Ok(input)
          [] kind = "Int" ->
               IF from_str_unsigned(input, U32_MAX) = None
               THEN Err("Invalid integer: " \o input)
               ELSE Ok(from_str_unsigned(input, U32_MAX)[1])
          [] kind = "Float" ->
               IF from_str_f32(input) = None
               THEN Err("Invalid float: " \o input)
               ELSE Ok(from_str_f32(input)[1])
          [] kind = "VecString" ->
               IF trim(input) = "" THEN Ok(<<>>) ELSE Ok(items)
          [] kind = "VecInt" ->
               IF trim(input) = "" THEN Ok(<<>>)
               ELSE IF \E i \in 1..Len(items) :
                          from_str_unsigned(items[i], U32_MAX) = None
               THEN Err("Invalid integer: " \o
                        items[CHOOSE i \in 1..Len(items) :
                                /\ from_str_unsigned(items[i], U32_MAX) = None
                                /\ \A j \in 1..(i - 1) :
                                      from_str_unsigned(items[j], U32_MAX) # None])
               ELSE Ok([i \in 1..Len(items) |->
                           from_str_unsigned(items[i], U32_MAX)[1]])
          [] kind = "Path" ->
               IF input = "" THEN Err("Path cannot be empty") ELSE Ok(input)

\* TextInput::handle_key_event with the InputBuffer operations it calls:
\* the widget after the key, and the EventResult
TextInput_handle_key_event(w, key) ==
    LET c == w.cursor
        n == Len(w.content)
        cleared == [w EXCEPT !.error = None]
        consumed == [tag |-> "Consumed", value |-> None]
    IN  CASE Len(key) = 1 ->
               <<[cleared EXCEPT
                    !.content = SubSeq(@, 1, c) \o key \o SubSeq(@, c + 1, n),
                    !.cursor = c + 1], consumed>>
          [] key = "Backspace" ->
               <<IF c > 0
                 THEN [cleared EXCEPT
                         !.content = SubSeq(@, 1, c - 1) \o SubSeq(@, c + 1, n),
                         !.cursor = c - 1]
                 ELSE cleared, consumed>>
          [] key = "Delete" ->
               <<IF c < n
                 THEN [cleared EXCEPT
                         !.content = SubSeq(@, 1, c) \o SubSeq(@, c + 2, n)]
                 ELSE cleared, consumed>>
          [] key = "Left" ->
               <<[cleared EXCEPT !.cursor = IF c > 0 THEN c - 1 ELSE c], consumed>>
          [] key = "Right" ->
               <<[cleared EXCEPT !.cursor = IF c < n THEN c + 1 ELSE c], consumed>>
          [] key = "Home" -> <<[cleared EXCEPT !.cursor = 0], consumed>>
          [] key = "End" -> <<[cleared EXCEPT !.cursor = n], consumed>>
          [] key = "Enter" ->
               IF Parser_parse(w.kind, w.content).ok
               THEN <<cleared, [tag |-> "Submit",
                                value |-> Some(Parser_parse(w.kind, w.content).val)]>>
               ELSE <<[w EXCEPT !.error = Some(Parser_parse(w.kind, w.content).err)],
                      consumed>>
          [] key = "Esc" -> <<cleared, [tag |-> "Cancel", value |-> None]>>
          [] OTHER -> <<cleared, [tag |-> "Ignored", value |-> None]>>

\* PathCompleter::update_suggestions.  The file system is the environment:
\* the working directory holds one file, q, and no other directory can be
\* read.  The directory read is the working directory when the input has
\* no '/' or has the form ./name, and the entries kept are those whose
\* name starts with the input's file name (none for "." or a trailing '/').
update_suggestions(input) ==
    LET dotted == starts_with(input, "./")
        name == IF dotted THEN SubSeq(input, 3, Len(input)) ELSE input
        prefix == IF name = "." THEN "" ELSE name
    IN  IF ~contains(name, "/") /\ starts_with("q", prefix)
        THEN <<"./q">>
        ELSE <<>>

\* CompletingInput::handle_key_event
CompletingInput_handle_key_event(w, key) ==
    LET consumed == [tag |-> "Consumed", value |-> None]
        typed == TextInput_handle_key_event(w, key)
        picked == [w EXCEPT !.content = w.suggestions[w.selected_idx + 1],
                            !.cursor = Len(w.suggestions[w.selected_idx + 1]),
                            !.error = None,
                            !.suggestions =
                                update_suggestions(w.suggestions[w.selected_idx + 1]),
                            !.selected_idx = 0,
                            !.mode = "Editing"]
    IN  IF w.mode = "Editing"
        THEN IF key \in {"Tab", "Down"}
             THEN <<[w EXCEPT !.suggestions = update_suggestions(w.content),
                              !.selected_idx = 0,
                              !.mode = IF update_suggestions(w.content) # <<>>
                                       THEN "Selecting" ELSE "Editing"],
                    consumed>>
             ELSE IF typed[2].tag = "Consumed"
             THEN <<[typed[1] EXCEPT
                       !.suggestions = update_suggestions(typed[1].content),
                       !.selected_idx = 0], consumed>>
             ELSE typed
        ELSE CASE key = "Up" ->
                    <<[w EXCEPT !.selected_idx =
                          IF @ = 0 THEN Len(w.suggestions) - 1 ELSE @ - 1],
                      consumed>>
               [] key = "Down" ->
                    <<[w EXCEPT !.selected_idx = (@ + 1) % Len(w.suggestions)],
                      consumed>>
               [] key = "Tab" -> <<picked, consumed>>
               [] key = "Enter" -> TextInput_handle_key_event(picked, key)
               [] key = "Esc" -> <<[w EXCEPT !.mode = "Editing"], consumed>>
               [] OTHER ->
                    <<[typed[1] EXCEPT !.mode = "Editing"], typed[2]>>

\* InputWidget::handle_event: the variant's handler, a Submit(v) wrapped
\* into the InputValue of the same variant
InputWidget_handle_event(w, key) ==
    LET r == IF w.kind = "Path"
             THEN CompletingInput_handle_key_event(w, key)
             ELSE TextInput_handle_key_event(w, key)
    IN  [w |-> r[1], tag |-> r[2].tag, kind |-> w.kind, value |-> r[2].value]

(***************************************************************************)
(* The terminal UI (src/src/tui).  TuiScan_new is the Model the App is     *)
(* given: NmapScan::new() with the two host_discovery fields that          *)
(* get_flag_value takes of it for NoResolve and AlwaysResolve.             *)
(***************************************************************************)
TuiScan_new ==
    [NmapScan_new EXCEPT !.host_discovery =
        [f \in DOMAIN HostDiscovery_default \cup {"no_resolve", "always_resolve"} |->
            IF f \in DOMAIN HostDiscovery_default
            THEN HostDiscovery_default[f] ELSE FALSE]]

\* the heights of SECTIONS, in order (the focused section counts from 0)
SECTIONS == <<11, 10, 10, 10, 10, 10, 10, 10, 10, 10>>

\* a widget with the text a field's value is formatted to
Widget(kind, content) ==
    [kind |-> kind, content |-> content, cursor |-> Len(content),
     error |-> None, mode |-> "Editing", suggestions |-> <<>>,
     selected_idx |-> 0]

\* initialize_text_inputs: the input_map of a new App
initialize_text_inputs(m) ==
    [flag \in {"Targets", "Exclude", "InputFile", "ExcludeFile", "RandomTargets"} |->
        LET v == m[get_flag_value(flag).sec][get_flag_value(flag).field]
        IN  CASE flag \in {"Targets", "Exclude"} ->
                   Widget("VecString", join(v, ", "))
              [] flag \in {"InputFile", "ExcludeFile"} ->
                   Widget("Path", IF v = None THEN "" ELSE v[1])
              [] flag = "RandomTargets" ->
                   Widget("Int", IF v = None THEN "" ELSE to_string(v[1]))]

\* render_checkbox: the let-else on the accessor's tag
render_checkbox(flag) ==
    IF get_flag_value(flag).tag = "Bool" THEN "rendered" ELSE "panic"

MaxKeys == 9
MaxInput == 2

(***************************************************************************)
(* State.  scan is the session's Model; command the text built from it or  *)
(* given to the parser; tokens, iter and parsed are the locals of          *)
(* NmapParser::parse (iter = number of tokens the iterator has yielded,    *)
(* parsed = its `scan`); roles records, for each token yielded, how the    *)
(* loop used it; result is what parse returned.  app, event and keys are   *)
(* the state of the terminal UI, described with its actions below.         *)
(***************************************************************************)
VARIABLES scan, command, tokens, iter, parsed, roles, result, pc,
          app, event, keys

vars == <<scan, command, tokens, iter, parsed, roles, result, pc,
          app, event, keys>>

Start(m, c, at) ==
    /\ scan = m
    /\ command = c
    /\ tokens = <<>>
    /\ iter = 0
    /\ parsed = NmapScan_new
    /\ roles = <<>>
    /\ result = None
    /\ pc = at
    /\ app = None
    /\ event = None
    /\ keys = 0

\* variant: the call takes the targets out of the Model it was given
Build_takes_targets ==
    /\ pc = "build"
    /\ command' = build(scan)
    /\ pc' = "tokenize"
    /\ scan' = [scan EXCEPT !.target_specification.targets = <<>>]
    /\ UNCHANGED <<tokens, iter, parsed, roles, result>>
    /\ UNCHANGED <<app, event, keys>>

\* NmapCommandBuilder::build(&scan)
Build ==
    /\ pc = "build"
    /\ command' = build(scan)
    /\ pc' = "tokenize"
    /\ UNCHANGED <<scan, tokens, iter, parsed, roles, result>>
    /\ UNCHANGED <<app, event, keys>>

\* a further call of NmapCommandBuilder::build on the same Model
BuildAgain ==
    /\ pc = "tokenize"
    /\ command' = build(scan)
    /\ UNCHANGED <<scan, tokens, iter, parsed, roles, result, pc>>
    /\ UNCHANGED <<app, event, keys>>

\* NmapParser::parse, up to the loop
Tokenize ==
    /\ pc = "tokenize"
    /\ parsed' = NmapScan_new
    /\ tokens' = tokenize(command)
    /\ iter' = 0
    /\ roles' = <<>>
    /\ pc' = "parse"
    /\ UNCHANGED <<scan, command, result>>
    /\ UNCHANGED <<app, event, keys>>

\* variant: an error ends the loop and what was parsed so far is returned
LoopStep_partial(st) ==
    /\ iter' = st.i
    /\ roles' = roles \o st.taken
    /\ IF st.res.ok
       THEN /\ parsed' = st.scan
            /\ UNCHANGED <<result, pc>>
       ELSE /\ result' = Some(Ok(parsed))
            /\ pc' = "done"
            /\ UNCHANGED parsed

\* the effect of one iteration `st`; an error returns from parse
LoopStep(st) ==
    /\ iter' = st.i
    /\ roles' = roles \o st.taken
    /\ IF st.res.ok
       THEN /\ parsed' = st.scan
            /\ UNCHANGED <<result, pc>>
       ELSE /\ result' = Some(Err(st.res.err))
            /\ pc' = "done"
            /\ UNCHANGED parsed

\* one iteration of the loop
ParseToken ==
    /\ pc = "parse"
    /\ iter < Len(tokens)
    /\ LoopStep(ParseStep(parsed, tokens, iter))
    /\ UNCHANGED <<scan, command, tokens>>
    /\ UNCHANGED <<app, event, keys>>

\* the iterator is exhausted: Ok(scan)
ParseEnd ==
    /\ pc = "parse"
    /\ iter = Len(tokens)
    /\ result' = Some(Ok(parsed))
    /\ pc' = "done"
    /\ UNCHANGED <<scan, command, tokens, iter, parsed, roles>>
    /\ UNCHANGED <<app, event, keys>>

\* build a Model, then parse the text
Init == \E m \in Models : Start(m, "", "build")
Next == Build \/ Tokenize \/ ParseToken \/ ParseEnd
Spec == Init /\ [][Next]_vars

\* parse a command line
InitParse == \E m \in PriorModels, c \in Commands : Start(m, c, "tokenize")
NextParse == Tokenize \/ ParseToken \/ ParseEnd
SpecParse == InitParse /\ [][NextParse]_vars

\* build a Model's command line, and build it again
NextBuild == Build \/ BuildAgain
SpecBuild == Init /\ [][NextBuild]_vars

\* parse a raw text
InitText == \E c \in Texts : Start(NmapScan_new, c, "tokenize")
SpecText == InitText /\ [][NextParse]_vars

(***************************************************************************)
(* The App (src/src/tui/app.rs).  app is the struct App without its        *)
(* reference to the Model, which is the variable scan; event is the key    *)
(* event that run read last and keys counts the events handled so far.     *)
(* One action per arm of App::handle_event; pc is "event" while run waits  *)
(* for an event, "exit" once run returned and "panic" after a panic.  The  *)
(* frame drawn between two events is not part of the model.                *)
(***************************************************************************)
\* App::new(scan) on a new Model
InitApp ==
    /\ scan = TuiScan_new
    /\ app = [input_map |-> initialize_text_inputs(TuiScan_new),
              focused_section |-> 0, focused_flag |-> first,
              editing_flag |-> None, focused_radio_index |-> None,
              scroll |-> 0, running |-> TRUE]
    /\ event = None
    /\ keys = 0
    /\ command = ""
    /\ tokens = <<>>
    /\ iter = 0
    /\ parsed = NmapScan_new
    /\ roles = <<>>
    /\ result = None
    /\ pc = "event"

\* KeyCode::Char('q')
Quit ==
    /\ pc = "event"
    /\ app.editing_flag = None
    /\ event' = Some("q")
    /\ app' = [app EXCEPT !.running = FALSE]
    /\ pc' = "exit"
    /\ UNCHANGED <<scan, command, tokens, iter, parsed, roles, result>>

\* KeyCode::Char('j') | KeyCode::Down: App::scroll_down
ScrollDown ==
    /\ pc = "event"
    /\ app.editing_flag = None
    /\ event' = Some("Down")
    /\ LET RECURSIVE sum(_)
           sum(n) == IF n = 0 THEN 0 ELSE sum(n - 1) + SECTIONS[n]
           section == IF app.focused_section + 1 < Len(SECTIONS) - 1
                      THEN app.focused_section + 1 ELSE Len(SECTIONS) - 1
           offset == app.scroll + SECTIONS[section + 1]
       IN  app' = [app EXCEPT
                     !.focused_section = section,
                     !.scroll = IF offset < sum(Len(SECTIONS) - 1)
                                THEN offset ELSE sum(Len(SECTIONS) - 1)]
    /\ UNCHANGED <<scan, command, tokens, iter, parsed, roles, result, pc>>

\* KeyCode::Char('k') | KeyCode::Up: App::scroll_up
ScrollUp ==
    /\ pc = "event"
    /\ app.editing_flag = None
    /\ event' = Some("Up")
    /\ LET section == IF app.focused_section > 0
                      THEN app.focused_section - 1 ELSE 0
       IN  app' = [app EXCEPT
                     !.focused_section = section,
                     !.scroll = IF @ > SECTIONS[section + 1]
                                THEN @ - SECTIONS[section + 1] ELSE 0]
    /\ UNCHANGED <<scan, command, tokens, iter, parsed, roles, result, pc>>

\* KeyCode::Char('l') | KeyCode::Right
FocusRight ==
    /\ pc = "event"
    /\ app.editing_flag = None
    /\ event' = Some("Right")
    /\ IF /\ app.focused_radio_index # None
          /\ get_variant_count(app.focused_flag) # None
          /\ app.focused_radio_index[1] + 1 < get_variant_count(app.focused_flag)[1]
       THEN app' = [app EXCEPT !.focused_radio_index = Some(@[1] + 1)]
       ELSE app' = [app EXCEPT
                      !.focused_flag = next(@),
                      !.focused_radio_index =
                          IF get_variant_count(next(app.focused_flag)) # None
                          THEN Some(0) ELSE None]
    /\ UNCHANGED <<scan, command, tokens, iter, parsed, roles, result, pc>>

\* variant: Left enters a field of choices on its first choice
FocusLeft_enters_first ==
    /\ pc = "event"
    /\ app.editing_flag = None
    /\ event' = Some("Left")
    /\ IF app.focused_radio_index # None /\ app.focused_radio_index[1] > 0
       THEN app' = [app EXCEPT !.focused_radio_index = Some(@[1] - 1)]
       ELSE app' = [app EXCEPT
                      !.focused_flag = prev(@),
                      !.focused_radio_index =
                          IF get_variant_count(prev(app.focused_flag)) # None
                          THEN Some(0) ELSE None]
    /\ UNCHANGED <<scan, command, tokens, iter, parsed, roles, result, pc>>

\* KeyCode::Char('h') | KeyCode::Left
FocusLeft ==
    /\ pc = "event"
    /\ app.editing_flag = None
    /\ event' = Some("Left")
    /\ IF app.focused_radio_index # None /\ app.focused_radio_index[1] > 0
       THEN app' = [app EXCEPT !.focused_radio_index = Some(@[1] - 1)]
       ELSE app' = [app EXCEPT
                      !.focused_flag = prev(@),
                      !.focused_radio_index =
                          IF get_variant_count(prev(app.focused_flag)) # None
                          THEN Some(IF get_variant_count(prev(app.focused_flag))[1] > 0
                                    THEN get_variant_count(prev(app.focused_flag))[1] - 1
                                    ELSE 0)
                          ELSE None]
    /\ UNCHANGED <<scan, command, tokens, iter, parsed, roles, result, pc>>

\* KeyCode::Enter | KeyCode::Char(' '): the match on the accessor
Activate ==
    /\ pc = "event"
    /\ app.editing_flag = None
    /\ \E key \in {"Enter", " "}, v \in {get_flag_value(app.focused_flag)} :
          /\ event' = Some(key)
          /\ CASE v.tag = "Bool" ->
                    /\ scan' = [scan EXCEPT ![v.sec][v.field] = ~@]
                    /\ UNCHANGED app
               [] v.tag \in {"VecString", "Path", "Int"} ->
                    /\ app' = [app EXCEPT !.editing_flag = Some(app.focused_flag)]
                    /\ UNCHANGED scan
               [] v.tag = "TimingTemplate" ->
                    /\ scan' = [scan EXCEPT ![v.sec][v.field] =
                          IF app.focused_radio_index = None THEN None
                          ELSE IF from_index(app.focused_radio_index[1]) = @
                          THEN None
                          ELSE from_index(app.focused_radio_index[1])]
                    /\ UNCHANGED app
               [] OTHER -> UNCHANGED <<scan, app>>
    /\ UNCHANGED <<command, tokens, iter, parsed, roles, result, pc>>

\* a key while a field is edited: the focused field's widget handles it,
\* and a Submit is written through the accessor.  A character is typed
\* only while the buffer holds fewer than MaxInput characters.
EditKey ==
    /\ pc = "event"
    /\ app.editing_flag # None
    /\ \E key \in Keys :
          /\ event' = Some(key)
          /\ IF app.focused_flag \notin DOMAIN app.input_map
             THEN /\ pc' = "panic"
                  /\ UNCHANGED <<scan, app>>
             ELSE /\ Len(key) = 1 =>
                        Len(app.input_map[app.focused_flag].content) < MaxInput
                  /\ \E r \in {InputWidget_handle_event(
                                   app.input_map[app.focused_flag], key)},
                        v \in {get_flag_value(app.focused_flag)} :
                        /\ app' = [app EXCEPT
                                     !.input_map[app.focused_flag] = r.w,
                                     !.editing_flag =
                                         IF r.tag \in {"Submit", "Cancel"}
                                         THEN None ELSE @]
                        /\ IF r.tag = "Submit" /\ r.kind = v.tag
                                 /\ r.kind \in {"Int", "VecString", "Path"}
                           THEN scan' = [scan EXCEPT ![v.sec][v.field] =
                                    IF r.kind = "VecString"
                                    THEN r.value[1] ELSE r.value]
                           ELSE UNCHANGED scan
                  /\ UNCHANGED pc
    /\ UNCHANGED <<command, tokens, iter, parsed, roles, result>>

\* one more event handled, of the MaxKeys the run is followed for
Tick == keys < MaxKeys /\ keys' = keys + 1

\* the run loop of the App: any key, MaxKeys events
NextApp ==
    \/ Quit /\ Tick
    \/ ScrollDown /\ Tick
    \/ ScrollUp /\ Tick
    \/ FocusRight /\ Tick
    \/ FocusLeft /\ Tick
    \/ Activate /\ Tick
    \/ EditKey /\ Tick
SpecApp == InitApp /\ [][NextApp]_vars

\* the arrow keys alone, any number of them
NextFocus ==
    \/ ScrollDown /\ UNCHANGED keys
    \/ ScrollUp /\ UNCHANGED keys
    \/ FocusRight /\ UNCHANGED keys
    \/ FocusLeft /\ UNCHANGED keys
SpecFocus == InitApp /\ [][NextFocus]_vars

\* the editing arm on every pairing of a focused field with a widget: the
\* App as it is after Enter on the field, had input_map held there a
\* widget of any variant of InputWidget
InitSubmit ==
    /\ scan = TuiScan_new
    /\ \E i \in 1..Len(NmapFlag),
          kind \in {"String", "Int", "Float", "VecString", "VecInt", "Path"},
          content \in {"", "1", "q"} :
          app = [input_map |-> [f \in {NmapFlag[i]} |-> Widget(kind, content)],
                 focused_section |-> 0, focused_flag |-> NmapFlag[i],
                 editing_flag |-> Some(NmapFlag[i]),
                 focused_radio_index |->
                     IF get_variant_count(NmapFlag[i]) # None
                     THEN Some(0) ELSE None,
                 scroll |-> 0, running |-> TRUE]
    /\ event = Some("Enter")
    /\ keys = 0
    /\ command = ""
    /\ tokens = <<>>
    /\ iter = 0
    /\ parsed = NmapScan_new
    /\ roles = <<>>
    /\ result = None
    /\ pc = "event"
NextSubmit == EditKey /\ UNCHANGED keys
SpecSubmit == InitSubmit /\ [][NextSubmit]_vars

(***************************************************************************)
(* Properties                                                              *)
(***************************************************************************)
Returned == pc = "done" /\ result # None
ReturnedOk == Returned /\ result[1].ok
ReturnedErr == Returned /\ ~result[1].ok

\* a text without the characters the tokenizer treats specially inside
\* quotes, and not empty
PlainText(s) ==
    s # "" /\ \A i \in 1..Len(s) : Ch(s, i) \notin {"\\", "\t", "\n"}

\* a Model whose every field value has a spelling in the flag grammar: one
\* scan technique, and texts that a quoted token can carry
Representable(m) ==
    /\ m.scan_technique.tag # "Multiple"
    /\ \A i \in 1..Len(Fields) :
          Fields[i][3] \in {"Option<String>", "Option<PathBuf>"} =>
              LET v == m[Fields[i][1]][Fields[i][2]]
              IN  v = None \/ PlainText(v[1])

\* C1: round trip.  For every representable Model M, parsing the command
\* line built from M succeeds and returns a Model equal to M.
C1_RoundTrip ==
    (Returned /\ Representable(scan)) => result[1] = Ok(scan)

ErrorKinds == {"InvalidFlag", "InvalidValue", "MissingValue"}

C2_Result ==
    /\ (pc = "done") = (result # None)
    /\ ReturnedOk =>
          /\ DOMAIN result[1] = {"ok", "val"}
          /\ DOMAIN result[1].val = DOMAIN NmapScan_new
          /\ result[1].val = parsed
          /\ iter = Len(tokens)
          /\ Len(roles) = Len(tokens)
    /\ ReturnedErr =>
          /\ DOMAIN result[1] = {"ok", "err"}
          /\ result[1].err.kind \in ErrorKinds
          /\ "scan" \notin DOMAIN result[1].err
          /\ iter <= Len(tokens)

\* C2: all or nothing.  parse returns either Ok with the Model obtained
\* from every token of the command, or Err with an error and no Model; and
\* the Model the session held before the call is never written by parse.
C2_AllOrNothing == [](C2_Result) /\ [][scan' = scan]_vars

\* an error returned after earlier tokens had already been applied, while
\* the session holds a Model of its own
C2_Witness ==
    /\ ReturnedErr
    /\ parsed # NmapScan_new
    /\ scan # NmapScan_new
    /\ scan # parsed

\* the spellings parse_flag knows: the table's, and -p with a value glued on
InTable(t) == t \in TableFlags \/ (starts_with(t, "-p") /\ Len(t) > 2)

FlagAt(k) == k \in 1..Len(roles) /\ roles[k] = "flag"

\* C3: unknown flag.  A token taken as a flag that is not in the dispatch
\* table makes parse return InvalidFlag with exactly that token, at once:
\* no later token is pulled; and an InvalidFlag error names the first such
\* token of the input.
C3_UnknownFlag ==
    /\ \A k \in 1..Len(roles) :
          (FlagAt(k) /\ ~InTable(tokens[k])) =>
              /\ ReturnedErr
              /\ result[1].err = InvalidFlag(tokens[k])
              /\ Len(roles) = k
              /\ iter = k
    /\ (ReturnedErr /\ result[1].err.kind = "InvalidFlag") =>
          /\ FlagAt(iter)
          /\ result[1].err = InvalidFlag(tokens[iter])
          /\ ~InTable(tokens[iter])
          /\ \A j \in 1..(iter - 1) : FlagAt(j) => InTable(tokens[j])
    /\ (Returned /\ command = "nmap --bogus-flag host") =>
          result[1] = Err(InvalidFlag("--bogus-flag"))

\* an unknown flag after an applied flag and before a token never looked at
C3_Witness ==
    /\ ReturnedErr
    /\ result[1].err.kind = "InvalidFlag"
    /\ 1 < iter /\ iter < Len(tokens)
    /\ parsed # NmapScan_new
    /\ starts_with(tokens[iter + 1], "-")

\* the declared type of a Model field, "" for the scan technique
FieldType(sec, field) ==
    IF \E i \in 1..Len(Fields) : Fields[i][1] = sec /\ Fields[i][2] = field
    THEN Fields[CHOOSE i \in 1..Len(Fields) :
                   Fields[i][1] = sec /\ Fields[i][2] = field][3]
    ELSE ""

ArmOf(flag) == DispatchTable[MatchArm(flag)]
TypeOf(flag) ==
    IF MatchArm(flag) = 0 THEN ""
    ELSE FieldType(ArmOf(flag).sec, ArmOf(flag).field)

NumericTypes ==
    {"Option<u8>", "Option<u16>", "Option<u32>", "Option<f32>", "Option<IpAddr>"}

\* text v parses (FromStr) as a value of the type
Coercible(type, v) ==
    CASE type = "Option<u8>" -> from_str_unsigned(v, U8_MAX) # None
      [] type = "Option<u16>" -> from_str_unsigned(v, U16_MAX) # None
      [] type = "Option<u32>" -> from_str_unsigned(v, U32_MAX) # None
      [] type = "Option<f32>" -> from_str_f32(v) # None
      [] type = "Option<IpAddr>" -> from_str_ip(v) # None

\* C4: coercion failure.  For a flag whose field is a number or an IP
\* address, a following token that does not parse as the field's type makes
\* parse return InvalidValue(flag as spelled, the token's text), and an
\* InvalidValue error only ever arises that way.
C4_InvalidValue ==
    /\ \A k \in 1..(Len(tokens) - 1) :
          (FlagAt(k) /\ TypeOf(tokens[k]) \in NumericTypes) =>
              IF Coercible(TypeOf(tokens[k]), tokens[k + 1])
              THEN ~(ReturnedErr /\ iter = k + 1)
              ELSE /\ ReturnedErr
                   /\ result[1].err = InvalidValue(tokens[k], tokens[k + 1])
                   /\ iter = k + 1
    /\ (ReturnedErr /\ result[1].err.kind = "InvalidValue") =>
          /\ FlagAt(iter - 1)
          /\ TypeOf(tokens[iter - 1]) \in NumericTypes
          /\ ~Coercible(TypeOf(tokens[iter - 1]), tokens[iter])
          /\ result[1].err = InvalidValue(tokens[iter - 1], tokens[iter])
    /\ (Returned /\ command = "nmap -iR not-a-number host") =>
          result[1] = Err(InvalidValue("-iR", "not-a-number"))

\* a number too large for the field's width, with a token left unread
C4_Witness ==
    /\ ReturnedErr
    /\ result[1].err = InvalidValue("--ttl", "256")
    /\ iter < Len(tokens)

\* the flags whose rule starts by taking the next token as the value
RequiresValue(flag) ==
    /\ flag \in TableFlags
    /\ \/ TypeOf(flag) \in NumericTypes
             \cup {"Option<String>", "Option<PathBuf>", "Vec<String>"}
       \/ flag \in {"--scanflags", "-sI", "-b"}

TargetCount == Cardinality({j \in 1..Len(roles) : roles[j] = "target"})

\* C5: required value.  A flag of the required-next-token class takes
\* exactly one following token as its value, whatever that token looks
\* like; the token is then neither dispatched as a flag nor appended to the
\* targets; a flag of the class that is the last token makes parse return
\* MissingValue(flag); and no other flag takes a token.
C5_RequiredValue ==
    /\ \A k \in 1..Len(roles) :
          (FlagAt(k) /\ RequiresValue(tokens[k])) =>
              IF k = Len(tokens)
              THEN /\ ReturnedErr
                   /\ result[1].err = MissingValue(tokens[k])
                   /\ Len(roles) = k
              ELSE /\ Len(roles) >= k + 1
                   /\ roles[k + 1] = "value"
    /\ \A k \in 1..Len(roles) :
          roles[k] = "value" =>
              /\ k > 1
              /\ FlagAt(k - 1)
              /\ RequiresValue(tokens[k - 1])
    /\ (ReturnedErr /\ result[1].err.kind = "MissingValue") =>
          /\ iter = Len(tokens)
          /\ FlagAt(iter)
          /\ RequiresValue(tokens[iter])
          /\ result[1].err = MissingValue(tokens[iter])
    /\ Len(parsed.target_specification.targets) = TargetCount

\* a value that looks like a known flag, taken as the value and not applied
C5_Witness ==
    /\ ReturnedOk
    /\ Len(tokens) = 4
    /\ tokens[2] = "-e" /\ tokens[3] = "-sn" /\ tokens[4] = "host"
    /\ roles = <<"program", "flag", "value", "target">>
    /\ result[1].val.evasion.interface = Some("-sn")
    /\ ~result[1].val.host_discovery.ping_scan
    /\ result[1].val.target_specification.targets = <<"host">>

OptionalValueFlags == {"-PS", "-PA", "-PU", "-PY", "-PO"}

\* C6: optional value.  When the token after -PS/-PA/-PU/-PY/-PO does not
\* start with '-', the flag takes it as its value, so it is not also read
\* as a target: "nmap -PS 80 host" gives syn_discovery = [80] and
\* targets = ["host"].
C6_OptionalConsumes ==
    /\ \A k \in 1..(Len(roles) - 1) :
          (/\ FlagAt(k)
           /\ tokens[k] \in OptionalValueFlags
           /\ ~starts_with(tokens[k + 1], "-")) => roles[k + 1] = "value"
    /\ (Returned /\ command = "nmap -PS 80 host") =>
          /\ result[1].ok
          /\ result[1].val.host_discovery.syn_discovery = <<80>>
          /\ result[1].val.target_specification.targets = <<"host">>

\* where the reader stands after the first i characters of s: outside
\* quotes, inside quotes, or inside quotes just after a backslash
RECURSIVE QuoteMode(_, _)
QuoteMode(s, i) ==
    IF i = 0 THEN "out"
    ELSE LET before == QuoteMode(s, i - 1)
             c == Ch(s, i)
         IN  IF before = "esc" THEN "in"
             ELSE IF c = "\"" THEN (IF before = "in" THEN "out" ELSE "in")
             ELSE IF c = "\\" /\ before = "in" THEN "esc"
             ELSE before

\* character i splits tokens: whitespace outside quotes
Separator(s, i) ==
    QuoteMode(s, i - 1) = "out" /\ Ch(s, i) \in {" ", "\t", "\n"}

\* character i is part of a token's text: an escaped character, or one that
\* is neither a separator, nor a quote, nor an escaping backslash
Literal(s, i) ==
    \/ QuoteMode(s, i - 1) = "esc"
    \/ /\ ~Separator(s, i)
       /\ Ch(s, i) # "\""
       /\ ~(Ch(s, i) = "\\" /\ QuoteMode(s, i - 1) = "in")

RECURSIVE RunText(_, _, _)
RunText(s, a, b) ==
    IF a > b THEN ""
    ELSE (IF Literal(s, a) THEN Ch(s, a) ELSE "") \o RunText(s, a + 1, b)

\* the maximal stretches without a separator that carry some text
Runs(s) ==
    {r \in (1..Len(s)) \X (1..Len(s)) :
        /\ r[1] <= r[2]
        /\ \A i \in r[1]..r[2] : ~Separator(s, i)
        /\ r[1] = 1 \/ Separator(s, r[1] - 1)
        /\ r[2] = Len(s) \/ Separator(s, r[2] + 1)
        /\ RunText(s, r[1], r[2]) # ""}

ExpectedTokens(s) ==
    [j \in 1..Cardinality(Runs(s)) |->
        LET r == CHOOSE q \in Runs(s) :
                    Cardinality({x \in Runs(s) : x[1] <= q[1]}) = j
        IN  RunText(s, r[1], r[2])]

\* C7: tokenizer.  The tokens are the texts of the stretches between
\* whitespace outside quotes; a double quote toggles quoted mode and is not
\* part of the text; inside quotes a backslash puts the next character into
\* the text and is itself dropped; outside quotes a backslash is ordinary;
\* an unterminated quote runs to the end of the text.
C7_Tokenize ==
    pc # "tokenize" =>
        /\ tokens = ExpectedTokens(command)
        /\ command = "\"a b\" c" => tokens = <<"a b", "c">>
        /\ command = "a \"b c" => tokens = <<"a", "b c">>
        /\ command = "\"a\\\"b\" c" => tokens = <<"a\"b", "c">>
        /\ command = "a\\ \\" => tokens = <<"a\\", "\\">>

\* the quoted token of the example, and an escaped quote inside quotes
C7_Witness ==
    /\ pc = "done"
    /\ command = "\"a\\\"b\" c"
    /\ tokens = <<"a\"b", "c">>
    /\ ReturnedOk
    /\ result[1].val.target_specification.targets = tokens

\* token k was read by the loop and is neither the leading program name
\* nor a flag
Positional(k) ==
    /\ k \in 1..Len(roles)
    /\ roles[k] # "value"
    /\ ~(k = 1 /\ tokens[1] = "nmap")
    /\ ~starts_with(tokens[k], "-")

RECURSIVE PositionalTokens(_)
PositionalTokens(k) ==
    IF k = 0 THEN <<>>
    ELSE PositionalTokens(k - 1)
           \o (IF Positional(k) THEN <<tokens[k]>> ELSE <<>>)

\* C8: classification.  Of the tokens not taken as a flag's value, "nmap"
\* is skipped only as the first token, every token that starts with '-' is
\* a flag, and every other one is appended to the targets: the targets are
\* exactly those tokens, in input order, duplicates kept.
C8_Classification ==
    /\ \A k \in 1..Len(roles) :
          /\ (roles[k] = "program") = (k = 1 /\ tokens[1] = "nmap")
          /\ (roles[k] = "flag") =
                (/\ roles[k] # "value"
                 /\ ~(k = 1 /\ tokens[1] = "nmap")
                 /\ starts_with(tokens[k], "-"))
          /\ (roles[k] = "target") = Positional(k)
    /\ parsed.target_specification.targets = PositionalTokens(Len(roles))
    /\ ReturnedOk =>
          /\ Len(roles) = Len(tokens)
          /\ result[1].val.target_specification.targets
                = PositionalTokens(Len(tokens))
    /\ (Returned /\ command = "host nmap host -sn nmap") =>
          /\ result[1].ok
          /\ result[1].val.target_specification.targets
                = <<"host", "nmap", "host", "nmap">>

\* the first "nmap" skipped, two later ones kept as targets
C8_Witness ==
    /\ ReturnedOk
    /\ tokens = <<"nmap", "-sn", "nmap", "nmap">>
    /\ roles = <<"program", "flag", "target", "target">>
    /\ result[1].val.target_specification.targets = <<"nmap", "nmap">>

\* the field a flag's rule writes
FieldOf(m, flag) ==
    IF ArmOf(flag).sec = "scan_technique" THEN m.scan_technique
    ELSE m[ArmOf(flag).sec][ArmOf(flag).field]

\* the most recent token the loop took as a flag, 0 if none
LastFlag ==
    IF \E k \in 1..Len(roles) : FlagAt(k)
    THEN CHOOSE k \in 1..Len(roles) :
            FlagAt(k) /\ \A j \in (k + 1)..Len(roles) : ~FlagAt(j)
    ELSE 0

\* token k is a flag that already occurred earlier in the command
Repeated(k) ==
    /\ FlagAt(k)
    /\ \E j \in 1..(k - 1) : FlagAt(j) /\ tokens[j] = tokens[k]

\* what the occurrence at k yields on its own, applied to a fresh Model
AloneAt(k) ==
    FieldOf(parse_flag(NmapScan_new, tokens[k],
                       SubSeq(tokens, k + 1, Len(tokens))).scan, tokens[k])

\* C9 as stated: after a repeated flag, its field holds what the last
\* occurrence alone yields, for every flag.
C9_LastWins ==
    (LastFlag > 0 /\ Repeated(LastFlag) /\ ~ReturnedErr) =>
        FieldOf(parsed, tokens[LastFlag]) = AloneAt(LastFlag)

CountFlags == {"-v", "-vv", "-d", "-dd"}

\* the sum of the counts of the occurrences up to k that write the field
\* of tokens[k]
RECURSIVE CountSum(_, _)
CountSum(k, j) ==
    IF j = 0 THEN 0
    ELSE CountSum(k, j - 1)
           + (IF /\ FlagAt(j)
                 /\ tokens[j] \in CountFlags
                 /\ ArmOf(tokens[j]).field = ArmOf(tokens[k]).field
              THEN ArmOf(tokens[j]).arg ELSE 0)

HasValueAt(j) == j < Len(tokens) /\ ~starts_with(tokens[j + 1], "-")

\* the latest occurrence of tokens[k] up to k that is followed by a value
LastWithValue(k) ==
    IF \E j \in 1..k : FlagAt(j) /\ tokens[j] = tokens[k] /\ HasValueAt(j)
    THEN CHOOSE j \in 1..k :
            /\ FlagAt(j) /\ tokens[j] = tokens[k] /\ HasValueAt(j)
            /\ \A i \in (j + 1)..k :
                  ~(FlagAt(i) /\ tokens[i] = tokens[k] /\ HasValueAt(i))
    ELSE 0

\* C9, amended: after a repeated flag, its field holds what the last
\* occurrence alone yields, except that the counting flags -v, -vv, -d, -dd
\* add up over the occurrences (saturating at 255), and that an occurrence
\* of -PS/-PA/-PU/-PY/-PO without a value leaves the list of the last
\* occurrence that had one.  Lists are replaced, never appended to.
C9_Repetition ==
    (LastFlag > 0 /\ Repeated(LastFlag) /\ ~ReturnedErr) =>
        LET k == LastFlag
            f == tokens[k]
        IN  IF f \in CountFlags
            THEN FieldOf(parsed, f) =
                    (IF CountSum(k, k) > 255 THEN 255 ELSE CountSum(k, k))
            ELSE IF f \in OptionalValueFlags
            THEN FieldOf(parsed, f) =
                    (IF LastWithValue(k) = 0 THEN <<>>
                     ELSE AloneAt(LastWithValue(k)))
            ELSE FieldOf(parsed, f) = AloneAt(k)

\* a string list given twice: the second list stands alone
C9_Witness ==
    /\ ReturnedOk
    /\ tokens = <<"--exclude", "host", "--exclude", "80,x,,70000,443">>
    /\ result[1].val.target_specification.exclude
          = <<"80", "x", "", "70000", "443">>

\* the digits of a list entry, "" when it is not an optional '+' followed
\* by one or more decimal digits
EntryDigits(p) ==
    LET body == IF Ch(p, 1) = "+" THEN SubSeq(p, 2, Len(p)) ELSE p
    IN  IF body # "" /\ \A i \in 1..Len(body) : IsDigit(Ch(body, i))
        THEN body ELSE ""

\* entry p is a number of 0..limit
InRange(p, limit) ==
    /\ EntryDigits(p) # ""
    /\ Len(StripZeros(EntryDigits(p))) <= 6
    /\ NumeralValue(StripZeros(EntryDigits(p))) <= limit

RECURSIVE KeptEntries(_, _)
KeptEntries(parts, limit) ==
    IF parts = <<>> THEN <<>>
    ELSE (IF InRange(Head(parts), limit)
          THEN <<NumeralValue(StripZeros(EntryDigits(Head(parts))))>>
          ELSE <<>>) \o KeptEntries(Tail(parts), limit)

ElementLimit(flag) == IF flag = "-PO" THEN 255 ELSE 65535

\* C10: numeric lists.  The list stored by -PS/-PA/-PU/-PY/-PO is the
\* comma-separated entries of the value that are numbers within the element
\* type's range (0..65535 for ports, 0..255 for protocols), in their
\* original order; every other entry is dropped and parse goes on: these
\* flags never produce an error.
C10_NumericList ==
    /\ \A k \in 1..Len(roles) :
          (/\ k = Len(roles)
           /\ FlagAt(k)
           /\ tokens[k] \in OptionalValueFlags
           /\ HasValueAt(k)) =>
              /\ pc = "parse"
              /\ FieldOf(parsed, tokens[k])
                    = KeptEntries(split(tokens[k + 1], ","),
                                  ElementLimit(tokens[k]))
    /\ ReturnedErr => result[1].err.flag \notin OptionalValueFlags

\* a protocol list with a non-number, an empty entry and two numbers that
\* fit a port but not a protocol
C10_Witness ==
    /\ pc = "parse"
    /\ roles = <<"program", "flag">>
    /\ tokens = <<"nmap", "-PO", "80,x,,70000,443", "host">>
    /\ parsed.host_discovery.ip_protocol_ping = <<80>>

\* token k is a -p flag in either spelling
PortsFlagAt(k) == FlagAt(k) /\ starts_with(tokens[k], "-p")

\* the most recent -p flag the loop took, 0 if none
LastPortsFlag ==
    IF \E k \in 1..Len(roles) : PortsFlagAt(k)
    THEN CHOOSE k \in 1..Len(roles) :
            PortsFlagAt(k) /\ \A j \in (k + 1)..Len(roles) : ~PortsFlagAt(j)
    ELSE 0

\* C11: the port flag in both spellings.  After "-p" followed by a token V,
\* and after a token "-pV" with V not empty, ports is Some(V), whatever V
\* is; V is taken as the flag's value (separated form) or is part of the
\* flag token (glued form) and is not among the targets.  "-p" as the last
\* token is a missing value.  parse("nmap -sS -p 80,443 192.168.1.1") gives
\* technique Syn, ports "80,443" and the one target.
C11_PortFlag ==
    /\ \A k \in 1..Len(roles) :
          (k = LastPortsFlag /\ ~ReturnedErr) =>
              IF tokens[k] = "-p"
              THEN /\ k < Len(roles)
                   /\ roles[k + 1] = "value"
                   /\ parsed.ports.ports = Some(tokens[k + 1])
              ELSE /\ parsed.ports.ports = Some(SubSeq(tokens[k], 3, Len(tokens[k])))
                   /\ (k < Len(roles) => roles[k + 1] # "value")
    /\ \A k \in 1..Len(roles) :
          (PortsFlagAt(k) /\ tokens[k] = "-p" /\ k = Len(tokens)) =>
              (ReturnedErr /\ result[1].err = MissingValue("-p"))
    /\ parsed.target_specification.targets = PositionalTokens(Len(roles))
    /\ (Returned /\ command = "nmap -sS -p 80,443 192.168.1.1") =>
          /\ result[1].ok
          /\ result[1].val.scan_technique = Technique("Syn")
          /\ result[1].val.ports.ports = Some("80,443")
          /\ result[1].val.target_specification.targets = <<"192.168.1.1">>

\* the glued form "-p-" followed by two tokens that both become targets
C11_Witness ==
    /\ ReturnedOk
    /\ tokens = <<"nmap", "-p-", "80", "host">>
    /\ result[1].val.ports.ports = Some("-")
    /\ result[1].val.target_specification.targets = <<"80", "host">>

\* token k is one of -PS/-PA/-PU/-PY/-PO with text glued onto it
GluedDiscoveryAt(k) ==
    /\ FlagAt(k)
    /\ Len(tokens[k]) > 3
    /\ SubSeq(tokens[k], 1, 3) \in OptionalValueFlags

\* C12: glued discovery lists.  A token made of -PS, -PA, -PU, -PY or -PO
\* and a list glued onto it, as the Builder writes it ("-PS80,443"), is
\* accepted by parse and stores the list in the flag's field.
C12_GluedDiscovery ==
    \A k \in 1..Len(roles) :
        (k = Len(roles) /\ GluedDiscoveryAt(k)) =>
            /\ ~ReturnedErr
            /\ FieldOf(parsed, SubSeq(tokens[k], 1, 3))
                  = KeptEntries(split(SubSeq(tokens[k], 4, Len(tokens[k])), ","),
                                ElementLimit(SubSeq(tokens[k], 1, 3)))

\* how many tokens of the command are t
Occurrences(t) == Cardinality({k \in 1..Len(tokens) : tokens[k] = t})

\* the tokens written for the count n: none, one `one`, one `two`, or n
\* times `one`
StackedAs(n, one, two) ==
    /\ Occurrences(one) = (IF n = 2 THEN 0 ELSE n)
    /\ Occurrences(two) = (IF n = 2 THEN 1 ELSE 0)

\* C13: stacked counts.  For the verbosity count n of the Model, and
\* independently for its debug count, the text built has no -v token for
\* n = 0, the one token -v for n = 1, the one token -vv for n = 2, and n
\* tokens -v and no -vv for n >= 3 (-d and -dd likewise); parsing that text
\* returns the same two counts.
C13_StackedCounts ==
    /\ pc \in {"parse", "done"} =>
          /\ StackedAs(scan.output.verbose, "-v", "-vv")
          /\ StackedAs(scan.output.debug, "-d", "-dd")
    /\ ReturnedOk =>
          /\ result[1].val.output.verbose = scan.output.verbose
          /\ result[1].val.output.debug = scan.output.debug
    /\ (Returned /\ scan.output.verbose + scan.output.debug > 0) => result[1].ok

\* the largest count, written as 255 tokens and read back as 255
C13_Witness ==
    /\ ReturnedOk
    /\ scan.output.debug = 255
    /\ Occurrences("-d") = 255
    /\ result[1].val.output.debug = 255

\* s with a backslash put before each double quote
RECURSIVE Escaped(_)
Escaped(s) ==
    IF s = "" THEN ""
    ELSE (IF Ch(s, 1) = "\"" THEN "\\\"" ELSE Ch(s, 1))
           \o Escaped(SubSeq(s, 2, Len(s)))

NeedsQuotes(s) == \E i \in 1..Len(s) : Ch(s, i) \in {" ", "\t", "\""}

\* how the quoting rule says the value s is written
Written(s) == IF NeedsQuotes(s) THEN "\"" \o Escaped(s) \o "\"" ELSE s

\* text occurs in cmd and is followed there by a space or by the end
Emits(cmd, text) ==
    \E i \in 1..(Len(cmd) - Len(text) + 1) :
        /\ SubSeq(cmd, i, i + Len(text) - 1) = text
        /\ (i + Len(text) - 1 = Len(cmd) \/ Ch(cmd, i + Len(text)) = " ")

\* the spellings of the flags that write a field
FlagsOfField(sec, field) ==
    {DispatchTable[i].flag : i \in {j \in 1..Len(DispatchTable) :
                                      /\ DispatchTable[j].sec = sec
                                      /\ DispatchTable[j].field = field}}

\* the flags of the techniques that carry a text
FlagsOfTechnique(tag) ==
    {DispatchTable[i].flag : i \in {j \in 1..Len(DispatchTable) :
                                      /\ DispatchTable[j].kind = "technique_arg"
                                      /\ DispatchTable[j].arg = tag}}

\* C14: quoting.  Every free-text or path value s of the Model (a set
\* text or path option, the text of a scan technique, a target) is written
\* as a double quote, s with a backslash before each of its double quotes,
\* and a double quote, if and only if s contains a space, a tab or a double
\* quote, and as s itself otherwise; data-string "a b" is written
\* --data-string "a b" and data-string "ab" is written --data-string ab.
C14_Quoting ==
    pc # "build" =>
        /\ \A i \in 1..Len(Fields) :
              LET v == scan[Fields[i][1]][Fields[i][2]]
              IN  (Fields[i][3] \in {"Option<String>", "Option<PathBuf>"} /\ v # None)
                     => \E f \in FlagsOfField(Fields[i][1], Fields[i][2]) :
                           Emits(command, " " \o f \o " " \o Written(v[1]))
        /\ scan.scan_technique.tag \in {"Scanflags", "Idle", "Ftp"} =>
              \E f \in FlagsOfTechnique(scan.scan_technique.tag) :
                  Emits(command, " " \o f \o " " \o Written(scan.scan_technique.arg))
        /\ \A k \in 1..Len(scan.target_specification.targets) :
              Emits(command, " " \o Written(scan.target_specification.targets[k]))
        /\ scan.evasion.data_string = Some("a b") =>
              Emits(command, " --data-string \"a b\"")
        /\ scan.evasion.data_string = Some("ab") =>
              Emits(command, " --data-string ab")

\* a value with a tab and a double quote
C14_Witness ==
    /\ pc = "tokenize"
    /\ scan.evasion.data_string = Some("\t\"")
    /\ command = "nmap -sS --data-string \"\t\\\"\""

\* the decimal numeral of n
RECURSIVE Decimal(_)
Decimal(n) ==
    IF n < 10 THEN Digits[n + 1]
    ELSE Decimal(n \div 10) \o Digits[(n % 10) + 1]

\* the texts of a list's values: a string as it is, a number in decimal
ValueTexts(list, type) ==
    [i \in 1..Len(list) |->
        IF type = "Vec<String>" THEN list[i] ELSE Decimal(list[i])]

\* the texts with a comma between neighbours
RECURSIVE CommaJoined(_)
CommaJoined(texts) ==
    IF Len(texts) = 0 THEN ""
    ELSE IF Len(texts) = 1 THEN texts[1]
    ELSE texts[1] \o "," \o CommaJoined(Tail(texts))

\* field i of the Model is a list written with a flag, and is not empty
ListFieldSet(i) ==
    /\ Fields[i][3] \in {"Vec<String>", "Vec<u16>", "Vec<u8>"}
    /\ FlagsOfField(Fields[i][1], Fields[i][2]) # {}
    /\ scan[Fields[i][1]][Fields[i][2]] # <<>>

\* the command has one of field i's flags, then `gap`, then the joined list
ListWritten(i, gap) ==
    \E f \in FlagsOfField(Fields[i][1], Fields[i][2]) :
        Emits(command, " " \o f \o gap
                 \o CommaJoined(ValueTexts(scan[Fields[i][1]][Fields[i][2]],
                                           Fields[i][3])))

\* C15 as stated: every non-empty list field, the discovery lists included,
\* is written as the flag, one space, and the values joined by commas.
C15_ListSpace ==
    pc # "build" => \A i \in 1..Len(Fields) : ListFieldSet(i) => ListWritten(i, " ")

\* C15, amended: every non-empty list of strings (--dns-servers, --script,
\* -D, --exclude) is written as the flag, one space, and the values joined
\* by commas; every non-empty discovery list (-PS, -PA, -PU, -PY, -PO) is
\* written as the flag with the joined values glued onto it, no space
\* between.  In both the values keep their order and duplicates are kept.
C15_ListFormat ==
    pc # "build" =>
        \A i \in 1..Len(Fields) :
            ListFieldSet(i) =>
                ListWritten(i, IF Fields[i][3] = "Vec<String>" THEN " " ELSE "")

\* a discovery list with a duplicate, out of numeric order
C15_Witness ==
    /\ pc = "tokenize"
    /\ scan.host_discovery.syn_discovery = <<443, 80, 80>>
    /\ command = "nmap -PS443,80,80 -sS"

\* the sections in the order the claim gives them, after the program name
SectionOrder ==
    <<"program", "host_discovery", "scan_technique", "ports",
      "service_detection", "script_scan", "os_detection", "timing",
      "evasion", "output", "misc", "target_specification">>

Rank(sec) == CHOOSE r \in 1..Len(SectionOrder) : SectionOrder[r] = sec

\* the kinds of rule that take the next token as the flag's value
ValueKinds ==
    {"string", "path", "number", "float", "ip", "strlist", "technique_arg"}

\* token t is a known flag that is followed by its value
TakesValue(t) ==
    /\ starts_with(t, "-")
    /\ MatchArm(t) # 0
    /\ ArmOf(t).kind \in ValueKinds

\* the section that token k of the command belongs to: the leading program
\* name, the section of the field a flag writes (a discovery list glued to
\* its flag included), the section of the flag a value follows, and the
\* targets for every other token
SectionAt(k) ==
    LET t == tokens[k]
    IN  IF k = 1 /\ t = "nmap" THEN "program"
        ELSE IF starts_with(t, "-") /\ MatchArm(t) # 0 THEN ArmOf(t).sec
        ELSE IF Len(t) > 3 /\ SubSeq(t, 1, 3) \in OptionalValueFlags
        THEN "host_discovery"
        ELSE IF k > 1 /\ TakesValue(tokens[k - 1])
        THEN ArmOf(tokens[k - 1]).sec
        ELSE "target_specification"

\* C16: section order.  The command starts with the program name; its
\* tokens lie grouped by section in the order host discovery, scan
\* technique, port specification, service detection, script scan, OS
\* detection, timing, evasion, output, miscellaneous, target
\* specification, no token of a later section before one of an earlier
\* section; and the targets of the Model are the last tokens.
C16_SectionOrder ==
    (pc = "parse" /\ iter = 0) =>
        /\ tokens[1] = "nmap"
        /\ \A k \in 2..Len(tokens) : SectionAt(k) # "program"
        /\ \A k \in 2..Len(tokens) :
              Rank(SectionAt(k - 1)) <= Rank(SectionAt(k))
        /\ LET n == Len(scan.target_specification.targets)
           IN  /\ n <= Len(tokens) - 1
               /\ SubSeq(tokens, Len(tokens) - n + 1, Len(tokens))
                     = scan.target_specification.targets

\* a Model with a setting in every section
C16_Witness ==
    /\ pc = "parse" /\ iter = 0
    /\ scan = WithSamples(NmapScan_new, 1..Len(SectionSamples), Len(SectionSamples))
    /\ tokens = <<"nmap", "--dns-servers", "b,a,b", "-sI", "a b", "-p", "80,443",
                  "-sV", "--script", "a", "--max-os-tries", "1000", "-T4",
                  "--data-string", "a b", "-v", "-v", "-v", "-6",
                  "--exclude", "a", "host", "a b">>

\* the flag spellings of each field of the Model
FieldFlags == [i \in 1..Len(Fields) |-> FlagsOfField(Fields[i][1], Fields[i][2])]

\* field i of the Model is a boolean, an optional or a list with a flag
SwitchField(i) ==
    /\ \/ Fields[i][3] = "bool"
       \/ starts_with(Fields[i][3], "Option<")
       \/ starts_with(Fields[i][3], "Vec<")
    /\ FieldFlags[i] # {}

\* field i of Model m is a false boolean, an unset optional or an empty list
Unset(m, i) ==
    LET v == m[Fields[i][1]][Fields[i][2]]
    IN  IF Fields[i][3] = "bool" THEN v = FALSE ELSE v = <<>>

TokenSet == {tokens[k] : k \in 1..Len(tokens)}

\* no token of the command is flag f, alone or with a list glued onto it
NoTokenFor(f) ==
    /\ f \notin TokenSet
    /\ f \in OptionalValueFlags => \A t \in TokenSet : ~starts_with(t, f)

\* C17: omission.  For every boolean, optional and list field of the Model
\* that is false, unset or empty, the command built has no token for any
\* spelling of the field's flag; so for the Model with every boolean false,
\* every optional unset, every list empty and both counts zero, no token of
\* the command is a boolean, optional or list flag.
C17_Omission ==
    (pc = "parse" /\ iter = 0) =>
        /\ \A i \in 1..Len(Fields) :
              (SwitchField(i) /\ Unset(scan, i)) =>
                  \A f \in FieldFlags[i] : NoTokenFor(f)
        /\ (\A i \in 1..Len(Fields) : SwitchField(i) => Unset(scan, i)) =>
              \A i \in 1..Len(Fields) :
                  SwitchField(i) =>
                      \A f \in FieldFlags[i] :
                          NoTokenFor(f)

\* the Model with nothing set: only the program name and the technique
C17_Witness ==
    /\ pc = "parse" /\ iter = 0
    /\ \A i \in 1..Len(Fields) : SwitchField(i) => Unset(scan, i)
    /\ scan.output.verbose = 0 /\ scan.output.debug = 0
    /\ tokens = <<"nmap", "-sS">>

\* what a call of build may do in one step: the first call returns a text
\* that starts with the program name, a further call returns the text the
\* call before it returned, and no call writes the Model
BuildStep ==
    /\ pc = "build" =>
          /\ pc' = "tokenize"
          /\ command' \in STRING
          /\ starts_with(command', "nmap")
    /\ pc = "tokenize" => command' = command
    /\ scan' = scan

RECURSIVE Flatten(_)
Flatten(st) ==
    IF st.tag # "Multiple" THEN <<st>>
    ELSE IF Len(st.list) = 0 THEN <<>>
    ELSE Flatten(st.list[1]) \o Flatten(Multiple(Tail(st.list)))

\* the tokens that the single technique t is written as: those of the
\* command of the Model that has t and nothing else, after the program name
SingleTokens(t) ==
    Tail(tokenize(build([NmapScan_new EXCEPT !.scan_technique = t])))

RECURSIVE TokensOfAll(_)
TokensOfAll(ts) ==
    IF Len(ts) = 0 THEN <<>>
    ELSE SingleTokens(ts[1]) \o TokensOfAll(Tail(ts))

\* the tokens 1..k of the command that belong to the scan technique
RECURSIVE TechniqueTokens(_)
TechniqueTokens(k) ==
    IF k = 0 THEN <<>>
    ELSE TechniqueTokens(k - 1)
           \o (IF SectionAt(k) = "scan_technique" THEN <<tokens[k]>> ELSE <<>>)

\* C19: composite technique.  For a scan technique Multiple([t1, ..., tn])
\* the command has, as its technique tokens, the tokens of t1, then those
\* of t2, and so on to tn, each member written as it is written when it is
\* the Model's single technique, a nested Multiple written in place as its
\* own members, and an empty list as nothing.
C19_Composite ==
    (pc = "parse" /\ iter = 0 /\ scan.scan_technique.tag = "Multiple") =>
        /\ TechniqueTokens(Len(tokens)) = TokensOfAll(Flatten(scan.scan_technique))
        /\ \A i \in 1..Len(Flatten(scan.scan_technique)) :
              Flatten(scan.scan_technique)[i].tag # "Multiple"
        /\ scan.scan_technique.list = <<>> => tokens = <<"nmap">>

\* a composite with texts, a nested composite, an empty one and a duplicate
C19_Witness ==
    /\ pc = "parse" /\ iter = 0
    /\ scan.scan_technique.tag = "Multiple"
    /\ Len(scan.scan_technique.list) = 4
    /\ tokens = <<"nmap", "-sI", "a b", "-sZ", "-b", "ab", "-sX", "-sX">>

\* the number of each timing template
TemplateNumber ==
    [Paranoid |-> 0, Sneaky |-> 1, Polite |-> 2, Normal |-> 3,
     Aggressive |-> 4, Insane |-> 5]

\* the tokens of the command that start with -T
TemplateTokens == {k \in 1..Len(tokens) : starts_with(tokens[k], "-T")}

\* C20: timing template.  Each of the six templates is written as the one
\* token -T<i>, i being the template's number (Paranoid 0, Sneaky 1,
\* Polite 2, Normal 3, Aggressive 4, Insane 5), distinct templates as
\* distinct tokens; an unset template is written as no -T token; and
\* parsing the command gives back the template of the Model.
C20_TimingTemplate ==
    /\ (pc = "parse" /\ iter = 0) =>
          IF scan.timing.template = None THEN TemplateTokens = {}
          ELSE /\ scan.timing.template[1] \in DOMAIN TemplateNumber
               /\ Cardinality(TemplateTokens) = 1
               /\ \A k \in TemplateTokens :
                     tokens[k] = "-T" \o Decimal(TemplateNumber[scan.timing.template[1]])
    /\ ReturnedOk => result[1].val.timing.template = scan.timing.template
    /\ (Returned /\ scan.timing.template # None) => result[1].ok
    /\ \A s, t \in DOMAIN TemplateNumber :
          TemplateNumber[s] = TemplateNumber[t] => s = t
    /\ DOMAIN TemplateNumber = {TimingTemplate[i] : i \in 1..Len(TimingTemplate)}

\* Aggressive written as -T4 and read back
C20_Witness ==
    /\ ReturnedOk
    /\ scan.timing.template = Some("Aggressive")
    /\ tokens = <<"nmap", "-sS", "-T4">>
    /\ result[1].val.timing.template = Some("Aggressive")

\* the Model whose only set field is the optional string --data-string
OnlyDataString(s) == [NmapScan_new EXCEPT !.evasion.data_string = Some(s)]

\* C26: for every free-text value s (letters, space, tab, newline, double
\* quote, backslash, the empty string included) the text the Builder writes
\* for s, quote_if_needed(s), is tokenized into exactly one token equal to
\* s: the command built from a Model whose only set field is the string s
\* is read back as the program name, the default technique, the flag and s.
C26_QuoteRoundTrip ==
    (pc = "parse" /\ iter = 0) =>
        \A s \in Strings(TextAlphabet, MaxTextLen) :
            scan = OnlyDataString(s) =>
                /\ command = "nmap -sS --data-string " \o quote_if_needed(s)
                /\ tokens = <<"nmap", "-sS", "--data-string", s>>

\* next applied k times to the identifier x
RECURSIVE NextTimes(_, _)
NextTimes(k, x) == IF k = 0 THEN x ELSE next(NextTimes(k - 1, x))

\* the identifiers the registry enumerates
Identifiers == {NmapFlag[i] : i \in 1..Len(NmapFlag)}

\* the laws of navigation for the identifier x
Cyclic(x) ==
    /\ next(prev(x)) = x
    /\ prev(next(x)) = x
    /\ NextTimes(Len(NmapFlag), x) = x
    /\ \A k \in 1..(Len(NmapFlag) - 1) : NextTimes(k, x) # x

\* the laws hold for every enumerated identifier, and the ends wrap
CyclicRegistry ==
    /\ \A x \in Identifiers : Cyclic(x)
    /\ next(NmapFlag[Len(NmapFlag)]) = NmapFlag[1]
    /\ prev(NmapFlag[1]) = NmapFlag[Len(NmapFlag)]

\* C21: navigation is cyclic and invertible.  For every enumerated
\* identifier x, and for the identifier the App has focused after any
\* Left and Right keys: next(prev(x)) = x and prev(next(x)) = x; next of
\* the last identifier is the first and prev of the first is the last;
\* next applied N times (N the number of identifiers) gives x back, and
\* applied k times, 1 <= k < N, it does not.
C21_Navigation ==
    /\ app.focused_flag \in Identifiers
    /\ Cyclic(app.focused_flag)
    /\ CyclicRegistry

\* Right on the last choice of the last identifier has wrapped to the first
C21_Witness ==
    /\ event = Some("Right")
    /\ app.focused_flag = "Targets"
    /\ prev(app.focused_flag) = "TimingTemplate"

\* the identifiers reached from first() by next, one after the other
RECURSIVE Walk(_, _)
Walk(x, n) == IF n = 0 THEN <<>> ELSE <<x>> \o Walk(next(x), n - 1)

\* the enumeration lists every identifier once and is the walk from first()
DeclaredOnce ==
    /\ Len(NmapFlag) = 22
    /\ \A i, j \in 1..Len(NmapFlag) : NmapFlag[i] = NmapFlag[j] => i = j
    /\ first = "Targets"
    /\ NmapFlag[Len(NmapFlag)] = "TimingTemplate"
    /\ Walk(first, Len(NmapFlag)) = NmapFlag

FieldOfFlag(x) == <<get_flag_value(x).sec, get_flag_value(x).field>>

\* the value v has the type the tag names
HasType(v, tag) ==
    CASE tag = "Bool" -> v \in BOOLEAN
      [] tag = "Int" -> v = None \/ (Len(v) = 1 /\ v[1] \in Nat)
      [] tag = "Path" -> v = None \/ (Len(v) = 1 /\ v[1] \in STRING)
      [] tag = "VecString" -> \A i \in 1..Len(v) : v[i] \in STRING
      [] tag = "VecInt" -> \A i \in 1..Len(v) : v[i] \in Nat
      [] tag = "TimingTemplate" ->
           v = None \/ (Len(v) = 1 /\ \E i \in 1..Len(TimingTemplate) :
                                          v[1] = TimingTemplate[i])

\* every identifier has one of the six tags, and no two identifiers
\* resolve to the same field
NoAlias ==
    /\ \A x \in Identifiers :
          get_flag_value(x).tag \in
              {"Bool", "Int", "VecInt", "VecString", "Path", "TimingTemplate"}
    /\ \A x, y \in Identifiers : FieldOfFlag(x) = FieldOfFlag(y) => x = y

\* a step that writes to the Model writes to the focused identifier's field
\* and to no other field of any section
WritesFocusedOnly ==
    scan' # scan =>
        /\ scan'[FieldOfFlag(app.focused_flag)[1]][FieldOfFlag(app.focused_flag)[2]]
              # scan[FieldOfFlag(app.focused_flag)[1]][FieldOfFlag(app.focused_flag)[2]]
        /\ \A sec \in DOMAIN scan : \A field \in DOMAIN scan[sec] :
              <<sec, field>> # FieldOfFlag(app.focused_flag)
                  => scan'[sec][field] = scan[sec][field]

TemplateLevels == {TimingTemplate_as_u8(TimingTemplate[i]) : i \in 1..Len(TimingTemplate)}

\* the arity of every identifier: 6 for the timing template, none otherwise
ArityTable ==
    /\ TemplateLevels = 0..5
    /\ \A x \in Identifiers :
          get_variant_count(x) =
              IF get_flag_value(x).tag = "TimingTemplate" THEN Some(6) ELSE None
    /\ \A x \in Identifiers :
          get_flag_value(x).tag = "TimingTemplate" <=> x = "TimingTemplate"

\* C25: get_variant_count returns Some(count) exactly for the identifiers
\* whose value is chosen from a fixed set, which is the timing template
\* alone, with count 6 (the levels 0 to 5), and None for every other
\* identifier; so it is for the identifier the App has focused.
C25_VariantCount ==
    /\ ArityTable
    /\ get_variant_count(app.focused_flag) =
          IF app.focused_flag = "TimingTemplate" THEN Some(6) ELSE None

\* the focus is on the last of the six choices of the timing template
C25_Witness ==
    /\ app.focused_flag = "TimingTemplate"
    /\ app.focused_radio_index = Some(5)
    /\ get_variant_count(app.focused_flag) = Some(6)

\* the focused choice is a choice of the focused field, if it has choices
RadioInRange ==
    IF get_variant_count(app.focused_flag) = None
    THEN app.focused_radio_index = None
    ELSE /\ app.focused_radio_index # None
         /\ app.focused_radio_index[1] \in
               0..(get_variant_count(app.focused_flag)[1] - 1)

\* what Right and Left do to the focus
RadioStep ==
    /\ (event' = Some("Right") /\ app.focused_radio_index # None) =>
          IF app.focused_radio_index[1] + 1 = get_variant_count(app.focused_flag)[1]
          THEN app'.focused_flag = next(app.focused_flag)
          ELSE /\ app'.focused_flag = app.focused_flag
               /\ app'.focused_radio_index = Some(app.focused_radio_index[1] + 1)
    /\ (event' = Some("Left") /\ app.focused_radio_index # None) =>
          IF app.focused_radio_index[1] = 0
          THEN app'.focused_flag = prev(app.focused_flag)
          ELSE /\ app'.focused_flag = app.focused_flag
               /\ app'.focused_radio_index = Some(app.focused_radio_index[1] - 1)
    /\ (event' = Some("Right") /\ app.focused_radio_index = None) =>
          /\ app'.focused_flag = next(app.focused_flag)
          /\ get_variant_count(app'.focused_flag) # None
                => app'.focused_radio_index = Some(0)
    /\ (event' = Some("Left") /\ app.focused_radio_index = None) =>
          /\ app'.focused_flag = prev(app.focused_flag)
          /\ get_variant_count(app'.focused_flag) # None
                => app'.focused_radio_index =
                      Some(get_variant_count(app'.focused_flag)[1] - 1)

\* C29: after any sequence of Left and Right keys from the initial App,
\* focused_radio_index is Some(i) with 0 <= i < variant count exactly when
\* the focused field has a variant count (the timing template) and None
\* for every other field; Right on the last choice moves to the next field
\* and Left on the first choice to the previous field; a field of choices
\* is entered on choice 0 with Right and on its last choice with Left.
C29_RadioFocus == []RadioInRange /\ [][RadioStep]_vars

\* the timing template was entered with Left, on its last choice
C29_Witness ==
    /\ event = Some("Left")
    /\ app.focused_flag = "TimingTemplate"
    /\ app.focused_radio_index = Some(5)

\* the offset the App has when Down was pressed k times from the start
\* and section k got the focus for the first time
ScrollOnArrival(k) == 10 * k

\* a key that leaves the focused section where it is leaves the offset
SameSectionSameScroll ==
    app'.focused_section = app.focused_section => app'.scroll = app.scroll

\* C30: scroll follows the section focus.  After any sequence of Up and
\* Down keys from the initial App, focused_section is within 0..9 and the
\* scroll offset is determined by focused_section alone: it is the offset
\* the section had when it was first reached, and a key pressed on the
\* last section (Down) or on the first (Up) does not change it.
C30_ScrollBySection ==
    /\ [](/\ app.focused_section \in 0..9
          /\ app.scroll = ScrollOnArrival(app.focused_section))
    /\ [][SameSectionSameScroll]_vars

\* C27: editing-mode safety.  After any sequence of key events from the
\* initial App, whenever editing_flag is Some(f), f is the focused field
\* and input_map holds a widget for f, so that routing the next key to
\* the focused field's widget does not fail (the handler never panics).
C27_EditingSafety ==
    /\ pc # "panic"
    /\ app.editing_flag # None =>
          /\ app.editing_flag = Some(app.focused_flag)
          /\ app.focused_flag \in DOMAIN app.input_map

\* a field is being edited, and the key about to be handled is `key`
Editing(key) == app.editing_flag # None /\ event' = Some(key)

\* the focused field's widget, a path input, shows its list of completions
ListOpen ==
    /\ app.focused_flag \in DOMAIN app.input_map
    /\ app.input_map[app.focused_flag].mode = "Selecting"

\* what the parser of the focused field's widget makes of its content
Parsed ==
    Parser_parse(app.input_map[app.focused_flag].kind,
                 app.input_map[app.focused_flag].content)

\* the Model after the step differs from the Model before it at most in
\* the focused field
OnlyFocusedField ==
    \A sec \in DOMAIN scan : \A field \in DOMAIN scan[sec] :
        <<sec, field>> # FieldOfFlag(app.focused_flag)
            => scan'[sec][field] = scan[sec][field]

\* the outcome of one key while a field is edited
EditStep ==
    /\ app.editing_flag # None =>
          /\ app'.focused_flag = app.focused_flag
          /\ app'.focused_section = app.focused_section
          /\ app'.scroll = app.scroll
          /\ app'.focused_radio_index = app.focused_radio_index
          /\ app'.running = app.running
    /\ (Editing("Esc") /\ ~ListOpen) =>
          /\ app'.editing_flag = None
          /\ scan' = scan
    /\ (Editing("Enter") /\ ~ListOpen
          /\ app.focused_flag \in DOMAIN app.input_map /\ ~Parsed.ok) =>
          /\ app'.editing_flag = app.editing_flag
          /\ app'.input_map[app.focused_flag].error = Some(Parsed.err)
          /\ scan' = scan
    /\ (Editing("Enter") /\ ~ListOpen
          /\ app.focused_flag \in DOMAIN app.input_map /\ Parsed.ok) =>
          /\ app'.editing_flag = None
          /\ scan'[FieldOfFlag(app.focused_flag)[1]][FieldOfFlag(app.focused_flag)[2]]
                = IF get_flag_value(app.focused_flag).tag = "VecString"
                  THEN Parsed.val ELSE Some(Parsed.val)
          /\ OnlyFocusedField

\* C28: the outcome of an edit.  While a field is edited, (a) Esc clears
\* editing_flag and leaves the Model unchanged; (b) Enter on content the
\* widget's parser rejects keeps editing_flag, records the error in the
\* widget and leaves the Model unchanged; (c) Enter on valid content
\* writes the parsed value to the focused field only and clears
\* editing_flag; and no key handled while editing changes the focused
\* field, the focused section, the scroll offset or running.  (A path
\* input whose list of completions is open is left aside: there Esc and
\* Enter act on the list.)
C28_EditOutcome == [][EditStep]_vars

\* the focused field's widget submits a value on Enter, and the value's
\* type is not the type of the focused field's accessor
MismatchedSubmit ==
    /\ Editing("Enter")
    /\ ~ListOpen
    /\ app.focused_flag \in DOMAIN app.input_map
    /\ Parsed.ok
    /\ app.input_map[app.focused_flag].kind # get_flag_value(app.focused_flag).tag

====
